---- MODULE Spec2Model ----
(***************************************************************************)
(* Batch orchestration pipeline of cipilot (src/pipeline/runner.py):       *)
(* the main tier that runs repositories through detection, translation,    *)
(* validation and fork push, the runtime-verification queue with its       *)
(* repair-and-requeue loop, the CSV reporter, and resume after a kill.     *)
(***************************************************************************)
EXTENDS Integers, Sequences, FiniteSets, TLC

\* ------------------------------------------------------------------ bounds
NumRepos == 2            \* repositories in the input list
MaxConfigs == 2          \* CI configurations detection may find in one repository
cloud_gha_retries == 1   \* --cloud-gha-retries of the modelled runs
max_concurrent == 2      \* PipelineConfig.max_concurrent
MaxRows == 2             \* configurations detected over the first run and its resume
MaxResumedRows == 1      \* configurations detected by the resumed run
max_retries == 2         \* attempts of a stage, --max-retries
MaxRuns == 3             \* back-to-back runs of the fork-and-push writer
MaxPoolRepos == 6        \* repositories handed to the pools when they are looked at alone
MaxPats == 4             \* credentials given with --github-pats
MaxInput == 2            \* repositories in the input list when the write targets are looked at alone
NumPreflight == 2        \* executor threads inside check_and_rotate_if_needed
MaxLines == 2            \* lines of a failed-job log
MaxLineLen == 3          \* tokens on one line of a failed-job log

Repos == 1..NumRepos
Cis == 1..MaxConfigs
Ids == Repos \X Cis

\* Python None as the value of GHAVerificationTask.row_index
NoRowIndex == 0

\* no credential index: nothing marked or returned yet
NoPat == -1

\* the process has not exited yet
NoExit == -1

Strictness == {"strict", "lint_only", "permissive", "dry_run"}
Terminal == {"success", "partial", "failed"}
ErrorKinds == {"success", "secret_error", "fixable_error", "timeout_error", "unknown_error"}

VARIABLES
    config,      \* PipelineConfig of both runs
    run,         \* "first" | "resumed": the run in progress (resumed = started with --resume)
    mainpc,      \* position of PipelineRunner.run / _run_with_gha_verify
    file,        \* rows of the output CSV, in file order
    initialized, \* CSVReporter._initialized
    O,           \* the output file as the resumed run found it
    prev,        \* per repository: the earlier run finished it with non-pending results
    repoState,   \* per repository: position of its main-tier worker
    ncfg,        \* per repository: number of detected configurations
    nextc,       \* per repository: configuration the worker is at
    repoRes,     \* per repository: the repo-level failed RepoResult, if one was returned
    res,         \* per (repo, ci): the RepoResult in memory
    hist,        \* per (repo, ci): calls made for the row in this run
    staging,     \* PipelineRunner._pending_gha_tasks
    queue,       \* PipelineRunner._gha_queue
    pending,     \* PipelineRunner._gha_pending_count
    busy,        \* the _gha_worker coroutines that hold a task: task, position, kind
    exited,      \* number of _gha_worker coroutines that have returned
    feeder,      \* the _gha_task_feeder coroutine
    resumedFrom, \* file rows of O handed to _resume_gha_task, in call order
    stop_requested, \* PipelineRunner._stop_requested
    gha_shutdown,   \* PipelineRunner._gha_shutdown is set
    rep,         \* the reporter calls in progress, and what the callers handed over
    pat_rotator, \* PATRotator: current_index, _rate_limited, and its last two calls
    double_check, \* the verifier's verdict and what the double-check stage made of it
    detection,   \* what the host answers to detect_ci's probes, and its DetectionResult
    fork,        \* the fork on the host (its refs) and the writer's position in a run
    cli,         \* run.py main(): its arguments, its position, the process exit code
    pool,        \* the semaphore of the main tier and the worker coroutines, by themselves
    preflight,   \* the check_and_rotate_if_needed calls in progress, one per worker thread
    llm_stage,   \* one call of migrate_ci or semantic_double_check: the replies, its loop, its result
    batch,       \* the input list of a run and the fork branches its rows have written to
    resume_row,  \* one row from its first write to its update by a resumed run
    classifier \* one failed-job log taken through classify_error and the dispatch

vars == <<config, run, mainpc, file, initialized, O, prev, repoState, ncfg, nextc,
          repoRes, res, hist, staging, queue, pending, busy, exited, feeder, resumedFrom,
          stop_requested, gha_shutdown, rep, pat_rotator,
          double_check, detection, fork, cli, pool, preflight, llm_stage, batch, resume_row, classifier>>

\* the orchestrator's own state, and the state of the components it calls
runnerVars == <<config, run, mainpc, file, initialized, O, prev, repoState, ncfg, nextc,
                repoRes, res, hist, staging, queue, pending, busy, exited, feeder,
                resumedFrom, stop_requested, gha_shutdown, rep>>
componentVars == <<pat_rotator, double_check, detection, fork, cli, pool, preflight, llm_stage, batch, resume_row, classifier>>

\* ------------------------------------------------------------- data shapes
NoResult == [status |-> "none", migration |-> "pending", lint |-> "pending", dc |-> "pending",
             push |-> "pending", pr |-> "pending", error_type |-> "none", fix_attempts |-> 0,
             pr_label |-> "none", resumed |-> FALSE, run_id |-> "none"]
NoHist == [writes |-> 0, updates |-> 0, pendingUpdates |-> 0, prCalls |-> 0, fixCalls |-> 0,
           commits |-> 0]
StopSignal == [id |-> <<0, 0>>, fix_attempt |-> 0, row_index |-> NoRowIndex]
GHAVerificationTask(id, fix_attempt, row_index) ==
    [id |-> id, fix_attempt |-> fix_attempt, row_index |-> row_index]

\* no reporter call in progress: the threads inside write_result, the
\* update_result call of the event loop, and the rows handed to the reporter
NoUpdate == [row_index |-> NoRowIndex]
NoCalls == [writers |-> {}, updater |-> NoUpdate, latest |-> << >>]

Range(s) == {s[i] : i \in DOMAIN s}

resume == run = "resumed"

\* ---------------------------------------------------------------- config
\* a strict mode that ignores the two override flags
should_create_pr_no_override(lint_passed, double_check_passed) ==
    IF config.strictness = "dry_run" THEN FALSE
    ELSE IF config.strictness = "permissive" THEN TRUE
    ELSE IF config.strictness = "lint_only" THEN lint_passed \/ config.pr_on_lint_fail
    ELSE lint_passed /\ double_check_passed

\* a lint_only mode that also asks for the semantic verdict
should_create_pr_semantic_gate(lint_passed, double_check_passed) ==
    IF config.strictness = "dry_run" THEN FALSE
    ELSE IF config.strictness = "permissive" THEN TRUE
    ELSE IF config.strictness = "lint_only"
         THEN (lint_passed \/ config.pr_on_lint_fail) /\ double_check_passed
    ELSE IF ~lint_passed THEN config.pr_on_lint_fail
    ELSE IF ~double_check_passed THEN config.pr_on_double_check_fail
    ELSE TRUE

should_create_pr(lint_passed, double_check_passed) ==
    IF config.strictness = "dry_run" THEN FALSE
    ELSE IF config.strictness = "permissive" THEN TRUE
    ELSE IF config.strictness = "lint_only" THEN lint_passed \/ config.pr_on_lint_fail
    ELSE IF ~lint_passed THEN config.pr_on_lint_fail
    ELSE IF ~double_check_passed THEN config.pr_on_double_check_fail
    ELSE TRUE

should_run_double_check(lint_passed) ==
    IF config.strictness = "dry_run" THEN TRUE
    ELSE IF ~lint_passed /\ config.skip_double_check_on_lint_fail THEN FALSE
    ELSE TRUE

\* The strictness policy for a failed runtime verification (decision matrix).
should_create_pr_on_gha_fail(error_type, fix_attempt) ==
    config.strictness \in {"lint_only", "permissive"}

\* ---------------------------------------------------------------- reporter
\* RepoResult.to_csv_row restricted to the columns the model follows.
to_csv_row(id, r) ==
    [repo |-> id[1], ci |-> IF r.resumed THEN 0 ELSE id[2], status |-> r.status]

\* CSVReporter.initialize: opens the output path with mode "w" and writes the header.
initialize(f) == << >>

\* CSVReporter.write_result: appends the row; the method has no return statement.
write_result_file(f, row) == Append(f, row)
write_result_return(f) == NoRowIndex

\* a loader that keeps only the repositories whose rows are terminal
load_processed_repos_terminal(f) == {f[i].repo : i \in {j \in DOMAIN f : f[j].status \in Terminal}}

\* CSVReporter.load_processed_repos: every repo_url found in the file
load_processed_repos(f) == {f[i].repo : i \in DOMAIN f}

\* load_gha_pending: the gha_pending rows of the file with their row index.
RECURSIVE PendingRows(_, _)
PendingRows(f, i) ==
    IF i > Len(f) THEN << >>
    ELSE IF f[i].status = "gha_pending"
         THEN <<[row_index |-> i, repo |-> f[i].repo, ci |-> f[i].ci]>> \o PendingRows(f, i + 1)
         ELSE PendingRows(f, i + 1)
load_gha_pending(f) == PendingRows(f, 1)

\* update_result: rewrites the row with that index in place.
update_result(f, row_index, row) ==
    IF row_index \in DOMAIN f THEN [f EXCEPT ![row_index] = row] ELSE f

\* ------------------------------------------------------------- token pool
\* PATRotator.__init__ with n credentials; marked and got remember the index
\* of the credential the last mark_rate_limited marked and the last get_pat
\* returned, seq the last two calls
PATRotator(n) ==
    [n |-> n, current_index |-> 0, rate_limited |-> {},
     marked |-> NoPat, got |-> NoPat, seq |-> "init"]

\* the while loop of get_pat: the index it stops at, and whether it ran out
RECURSIVE find_pat(_, _, _)
find_pat(p, current_index, attempts) ==
    IF attempts < p.n
    THEN IF current_index \notin p.rate_limited
         THEN [current_index |-> current_index, exhausted |-> FALSE]
         ELSE find_pat(p, (current_index + 1) % p.n, attempts + 1)
    ELSE [current_index |-> current_index, exhausted |-> TRUE]

\* set.clear
clear(rate_limited) == {}

\* PATRotator.get_pat
get_pat(p) ==
    LET f == find_pat(p, p.current_index, 0)
    IN  [p EXCEPT !.current_index = f.current_index,
                  !.rate_limited = IF f.exhausted THEN clear(@) ELSE @,
                  !.got = f.current_index,
                  !.seq = IF p.seq = "mark" THEN "mark_get" ELSE "get"]

\* a mark that leaves the cursor where it is
mark_rate_limited_no_rotate(p) ==
    [p EXCEPT !.rate_limited = @ \cup {p.current_index},
              !.marked = p.current_index, !.seq = "mark"]

\* a mark that advances the cursor without wrapping around
mark_rate_limited_no_wrap(p) ==
    [p EXCEPT !.rate_limited = @ \cup {p.current_index},
              !.current_index = p.current_index + 1,
              !.marked = p.current_index, !.seq = "mark"]

\* PATRotator.mark_rate_limited
mark_rate_limited(p) ==
    [p EXCEPT !.rate_limited = @ \cup {p.current_index},
              !.current_index = (p.current_index + 1) % p.n,
              !.marked = p.current_index, !.seq = "mark"]

\* The threads inside check_and_rotate_if_needed: pat is the credential the
\* call's first get_pat returned and whose rate limit it then read, marked the
\* index its mark_rate_limited put into the throttled set. The method itself
\* holds no lock: only the three calls it makes do.
Preflight ==
    [w \in 1..NumPreflight |-> [pc |-> "idle", pat |-> NoPat, marked |-> NoPat]]

\* ------------------------------------------------------- semantic verifier
\* A step name or a feature is a sequence of tokens; "contains" is Python's
\* substring test on the token level.
Contains(h, a) ==
    \E i \in 1..(Len(h) - Len(a) + 1) : SubSeq(h, i, i + Len(a) - 1) = a

\* str.lower()
lower(h) == [i \in 1..Len(h) |-> IF h[i] = "Checkout" THEN "checkout" ELSE h[i]]

\* the step names and features the verifier may report
CheckoutV4 == <<"actions/", "checkout", "@v4">>
SetupNode == <<"actions/", "setup-", "node", "@v4">>
CheckoutCode == <<"Checkout", " ", "code">>
DockerLogin == <<"docker/", "login-action", "@v3">>
StepNames == {CheckoutV4, SetupNode, CheckoutCode, DockerLogin}
CacheFeature == <<"dependency", " ", "cache">>
DockerFeature == <<"docker", " ", "image">>
Features == {CacheFeature, DockerFeature}

\* llm_converter.semantic_verify_migration on a parsed JSON verdict
semantic_verify_migration(raw) ==
    [passed |-> raw.passed /\ raw.hallucinated_steps = << >>,
     missing_features |-> raw.missing_features,
     hallucinated_steps |-> raw.hallucinated_steps]

\* stages/double_check.semantic_double_check: the DoubleCheckResult of the
\* first attempt that returns
semantic_double_check(raw) ==
    LET verification == semantic_verify_migration(raw)
    IN  [passed |-> verification.passed,
         hallucinated_steps |-> verification.hallucinated_steps]

\* backend/main._semantic_double_check
allowed_additions ==
    {<<"actions/", "checkout">>, <<"checkout">>, <<"actions/", "checkout", "@v4">>,
     <<"actions/", "checkout", "@v3">>, <<"actions/", "setup-">>, <<"setup-", "node">>,
     <<"setup-", "python">>, <<"setup-", "java">>, <<"setup-", "go">>}
significant_keywords ==
    {<<"docker">>, <<"container">>, <<"image">>, <<"service">>, <<"environment">>,
     <<"env">>, <<"command">>, <<"script">>, <<"step">>}
is_allowed(h) == \E allowed \in allowed_additions : Contains(lower(h), lower(allowed))
is_significant(m) == \E kw \in significant_keywords : Contains(lower(m), kw)
\* [h for h in hallucinated if not any(allowed in h ...)]
RECURSIVE filter_hallucinated(_)
filter_hallucinated(hallucinated) ==
    IF hallucinated = << >> THEN << >>
    ELSE IF ~is_allowed(Head(hallucinated))
         THEN <<Head(hallucinated)>> \o filter_hallucinated(Tail(hallucinated))
         ELSE filter_hallucinated(Tail(hallucinated))

\* [m for m in missing if any(kw in m.lower() ...)]
RECURSIVE filter_significant(_)
filter_significant(missing) ==
    IF missing = << >> THEN << >>
    ELSE IF is_significant(Head(missing))
         THEN <<Head(missing)>> \o filter_significant(Tail(missing))
         ELSE filter_significant(Tail(missing))

backend_semantic_double_check(raw) ==
    LET result == semantic_verify_migration(raw)
        hallucinated == result.hallucinated_steps
        filtered_hallucinated == filter_hallucinated(hallucinated)
        passed == IF hallucinated # << >> /\ filtered_hallucinated = << >>
                  THEN TRUE ELSE result.passed
        significant_missing == filter_significant(result.missing_features)
    IN  [passed |-> IF result.missing_features # << >> /\ filtered_hallucinated = << >>
                       /\ significant_missing # << >>
                    THEN FALSE ELSE passed,
         hallucinated_steps |-> filtered_hallucinated]

\* a verdict of the verifier model, and the stage before it has looked at it
CleanVerdict == [passed |-> TRUE, missing_features |-> << >>, hallucinated_steps |-> << >>]
DoubleCheck(raw) ==
    [pc |-> "llm", raw |-> raw, passed |-> FALSE, hallucinated_steps |-> << >>]

\* ------------------------------------------------- the stages that call the LLM
\* What one request to the provider ends in: a network or API error raised by
\* the client, or the text of the reply (empty, a YAML document, a JSON
\* verdict that passes or rejects, or prose).
ProviderReplies == {"error", "empty", "yaml", "json_passed", "json_rejected", "text"}

\* llm_converter.convert_pipeline: the reply's text, or the client's exception
convert_pipeline(reply) ==
    IF reply = "error" THEN [raised |-> TRUE, text |-> "none"]
    ELSE [raised |-> FALSE, text |-> reply]

\* llm_converter.semantic_verify_migration with its except clauses: a reply
\* that is no JSON counts as passed, an exception of the client as not passed;
\* the function returns a dict in every case and raises nothing
semantic_verify_migration_call(reply) ==
    IF reply = "error" THEN [passed |-> FALSE]
    ELSE IF reply = "json_passed"
    THEN [passed |-> semantic_verify_migration(CleanVerdict).passed]
    ELSE IF reply = "json_rejected"
    THEN [passed |-> semantic_verify_migration([CleanVerdict EXCEPT !.passed = FALSE]).passed]
    ELSE [passed |-> TRUE]

\* one iteration of the for loop of stages/migrate.migrate_ci
migrate_ci(s) ==
    LET attempt == s.attempts
        c == convert_pipeline(s.replies[attempt + 1])
        last == ~(attempt < s.retries - 1)
    IN  IF ~c.raised /\ c.text # "empty"
        THEN [s EXCEPT !.attempts = attempt + 1, !.status = "success"]
        ELSE [s EXCEPT !.attempts = attempt + 1, !.error = TRUE,
                       !.status = IF last THEN "failed" ELSE @]

\* one iteration of the for loop of stages/double_check.semantic_double_check
stage_double_check(s) ==
    LET verification == semantic_verify_migration_call(s.replies[s.attempts + 1])
    IN  [s EXCEPT !.attempts = @ + 1, !.passed = verification.passed,
                  !.status = IF verification.passed THEN "success" ELSE "failed"]

\* a stage before its first iteration; error is "result.error is set"
LlmStage(stage, replies) ==
    [stage |-> stage, replies |-> replies, retries |-> Len(replies), attempts |-> 0,
     status |-> "pending", error |-> FALSE, passed |-> FALSE]
NoReplies == [a \in 1..max_retries |-> "yaml"]

\* ----------------------------------------------------------------- detector
\* the patterns probed, in the order of CI_DETECTION_PATTERNS, and their kinds
Patterns == <<".circleci/config.yml", ".travis.yml", ".gitlab-ci.yml">>
ci_type_of == <<"circleci", "travis", "gitlab">>
ProbeOutcomes == {"found", "not_found", "network_error"}

\* models.DetectionResult: status, detected_configs and error are dataclass
\* fields; detected_ci, source_yaml, source_path and all_detected are
\* properties without a setter, so assigning to them raises AttributeError
DetectionFields == {"status", "detected_configs", "error"}
can_set(attr) == attr \in DetectionFields

DetectionResult == [status |-> "pending", detected_configs |-> {}, error |-> "none"]

\* one pass of the attempt loop of detect_ci over the answers probes[p]: a
\* request that raises is caught around the single pattern and skipped
RECURSIVE detect_attempt(_, _, _, _, _)
detect_attempt(result, probes, retries, attempt, requests_raised) ==
    LET all_detected == {ci_type_of[p] : p \in {q \in 1..Len(Patterns) : probes[attempt][q] = "found"}}
        primary_ci == IF all_detected = {} THEN "None" ELSE "some"
    IN  IF requests_raised
        THEN \* except requests.exceptions.RequestException
             IF attempt < retries
             THEN detect_attempt(result, probes, retries, attempt + 1, FALSE)
             ELSE [result EXCEPT !.status = "failed", !.error = "GitHub API error"]
        ELSE IF ~can_set("detected_ci")
        THEN \* result.detected_ci = ... raises inside the try: except Exception
             [result EXCEPT !.status = "failed", !.error = "Detection error"]
        ELSE IF primary_ci # "None"
        THEN [result EXCEPT !.status = "success", !.detected_configs = all_detected]
        ELSE [result EXCEPT !.status = "success", !.error = "No CI configuration found"]

\* stages/detect.detect_ci: no exception of a request leaves the inner try
detect_ci(probes, retries) == detect_attempt(DetectionResult, probes, retries, 1, FALSE)

Detection(probes) == [pc |-> "call", probes |-> probes, result |-> DetectionResult]
NoCI == [a \in 1..max_retries |-> [p \in 1..Len(Patterns) |-> "not_found"]]

\* ------------------------------------------------------ fork-and-push writer
\* branch_name = f"{branch_prefix}-{source_ci}-to-gha"
branch_prefix == "cipilot/migrated"
branch_name(source_ci) == <<branch_prefix, "-", source_ci, "-to-gha">>
SourceCis == {"travis", "circleci"}
BranchNames == {branch_name(ci) : ci \in SourceCis}

\* what a ref of the fork points at: "absent", the default branch's tip
\* "base", a commit "stale" of an earlier session, or the commit of run n
commit_of(n) == IF n = 1 THEN "commit1" ELSE IF n = 2 THEN "commit2" ELSE "commit3"

\* a _create_branch that posts the ref without looking for an existing one
create_branch_no_delete(refs, name, sha) ==
    IF refs[name] = "absent"
    THEN [ok |-> TRUE, refs |-> [refs EXCEPT ![name] = sha], deleted |-> FALSE]
    ELSE [ok |-> FALSE, refs |-> refs, deleted |-> FALSE]

\* _create_branch on the fork's refs: GET the ref, DELETE it if it is there,
\* POST the new ref, which the host refuses when the ref still exists
create_branch(refs, name, sha) ==
    LET exists == refs[name] # "absent"
        after_delete == IF exists THEN [refs EXCEPT ![name] = "absent"] ELSE refs
    IN  IF after_delete[name] = "absent"
        THEN [ok |-> TRUE, refs |-> [after_delete EXCEPT ![name] = sha], deleted |-> exists]
        ELSE [ok |-> FALSE, refs |-> after_delete, deleted |-> exists]

\* _create_or_update_file: PUT contents commits on top of the branch's tip
create_or_update_file(refs, name, n) ==
    IF refs[name] = "absent"
    THEN [ok |-> FALSE, refs |-> refs]
    ELSE [ok |-> TRUE, refs |-> [refs EXCEPT ![name] = commit_of(n)]]

NoRun == [source_ci |-> "none", branch_name |-> << >>, status |-> "pending", deleted |-> FALSE]
Fork(forked, refs, source_ci) ==
    [pc |-> "fork", run |-> 1, forked |-> forked, refs |-> refs,
     runs |-> [n \in 1..MaxRuns |-> IF n = 1 THEN [NoRun EXCEPT !.source_ci = source_ci] ELSE NoRun]]
NoRefs == [b \in BranchNames |-> "absent"]

\* --------------------------------------------------- where a row writes to
\* models.RepoInput: owner and name are the two path parts of repo_url
Owners == {"alice", "bob"}
Names == {"app", "lib"}
RepoInput(owner, name) == [owner |-> owner, name |-> name]
full_name(repo) == <<repo.owner, "/", repo.name>>

\* the login of the account the credential belongs to (GET /user)
username == "bot"

\* pull_request._ensure_fork: both of its successful returns name the
\* authenticated user as the owner of the fork
ensure_fork(repo) == username

\* the fork, repository and branch the calls of create_pull_request after
\* _ensure_fork address: fork_owner, repo.name, branch_name
write_target(repo, source_ci) ==
    [fork_owner |-> ensure_fork(repo), repo_name |-> repo.name,
     branch_name |-> branch_name(source_ci)]

\* a run over the input list repos; rows holds, for the rows that have
\* reached the fork, the position in the list, the configuration and the target
Batch(repos) == [repos |-> repos, rows |-> {}]

\* ------------------------------------------------- a row across two runs
\* RepoResult(input=repo) with the defaults of its dataclasses, flattened to
\* the fields the row is made of; None is written as "" (<< >> for a branch)
RepoResult(repo) ==
    [input |-> repo, detected_ci |-> "", detection_status |-> "pending",
     source_yaml |-> "", migration_status |-> "pending", migrated_yaml |-> "",
     validation_status |-> "pending", double_check_status |-> "pending",
     gha_fix_attempts |-> 0, gha_fork_owner |-> "", gha_branch_name |-> << >>,
     pr_status |-> "pending", branch_name |-> << >>, overall_status |-> "pending"]

\* the result _process_single_ci_with_gha returns after push_to_fork
PushedResult(repo, source_ci, validation_status, double_check_status) ==
    [RepoResult(repo) EXCEPT
        !.detected_ci = source_ci, !.detection_status = "success", !.source_yaml = "source",
        !.migration_status = "success", !.migrated_yaml = "migrated",
        !.validation_status = validation_status,
        !.double_check_status = double_check_status,
        !.gha_fork_owner = ensure_fork(repo), !.gha_branch_name = branch_name(source_ci),
        !.branch_name = branch_name(source_ci), !.overall_status = "gha_pending"]

\* RepoResult.to_csv_row with every key it produces (of the modelled fields)
csv_row(result) ==
    [repo_url |-> full_name(result.input), detected_ci |-> result.detected_ci,
     detection_status |-> result.detection_status,
     migration_status |-> result.migration_status,
     validation_status |-> result.validation_status,
     double_check_status |-> result.double_check_status,
     gha_fix_attempts |-> result.gha_fix_attempts,
     gha_fork_owner |-> result.gha_fork_owner, gha_branch_name |-> result.gha_branch_name,
     pr_status |-> result.pr_status, branch_name |-> result.branch_name,
     overall_status |-> result.overall_status,
     source_yaml |-> result.source_yaml, migrated_yaml |-> result.migrated_yaml]

\* CSVReporter.CORE_COLUMNS and EXTENDED_COLUMNS, as far as to_csv_row above
\* has the key; columns is self.columns with include_yaml_content = True
CORE_COLUMNS ==
    {"repo_url", "detected_ci", "detection_status", "migration_status", "validation_status",
     "double_check_status", "pr_status", "branch_name", "overall_status"}
EXTENDED_COLUMNS == {"source_yaml", "migrated_yaml", "branch_name"}
columns == CORE_COLUMNS \cup EXTENDED_COLUMNS

\* csv.DictWriter(fieldnames=self.columns, extrasaction="ignore").writerow
writerow(row) == [k \in columns |-> row[k]]

\* dict.get
get(d, k, default) == IF k \in DOMAIN d THEN d[k] ELSE default

\* update_result: the row of the file is replaced by the row of the result
update_result_row(result) == writerow(csv_row(result))

\* load_gha_pending: a gha_pending row as csv.DictReader gives it, with its index
load_gha_pending_row(row, row_index) == [row |-> row, row_index |-> row_index]

\* RepoInput(repo_url=...) with owner and name read back from the URL
RepoInputOf(repo_url) == RepoInput(repo_url[1], repo_url[3])

\* _resume_gha_task: the RepoResult "with minimal data"
resumed_result(task_data) ==
    [RepoResult(RepoInputOf(get(task_data.row, "repo_url", <<"", "/", "">>))) EXCEPT
        !.overall_status = "gha_pending",
        !.gha_fork_owner = get(task_data.row, "gha_fork_owner", ""),
        !.gha_branch_name = get(task_data.row, "gha_branch_name", << >>)]

\* _resume_gha_task: the task it puts on the queue
resumed_task(task_data) ==
    [fork_owner |-> get(task_data.row, "gha_fork_owner", ""),
     branch_name |-> get(task_data.row, "gha_branch_name", << >>),
     current_yaml |-> get(task_data.row, "migrated_yaml", ""),
     source_ci |-> get(task_data.row, "detected_ci", "unknown"),
     fix_attempt |-> get(task_data.row, "gha_fix_attempts", 0),
     row_index |-> task_data.row_index]

\* the task of the first run at its fix_attempt
first_task(result, fix_attempt) ==
    [fork_owner |-> result.gha_fork_owner, branch_name |-> result.gha_branch_name,
     current_yaml |-> result.migrated_yaml, source_ci |-> result.detected_ci,
     fix_attempt |-> fix_attempt, row_index |-> 1]

NoTask == [fork_owner |-> "", branch_name |-> << >>, current_yaml |-> "",
           source_ci |-> "unknown", fix_attempt |-> 0, row_index |-> 0]
NoRow == [k \in {} |-> ""]

\* result and task are the objects in the memory of the running process, row
\* the row of the file, written the row as the first run left it
ResumeRow(repo, source_ci, validation_status, double_check_status) ==
    [pc |-> "pushed",
     result |-> PushedResult(repo, source_ci, validation_status, double_check_status),
     task |-> NoTask, replaced |-> NoTask, row |-> NoRow, written |-> NoRow]

\* ------------------------------------------------------- error classifier
\* A log is a sequence of lines and a line a sequence of tokens; a token is a
\* run of characters that the patterns below never split, or one character.
\* "U+0130" is the capital I with dot above and "U+0307" the combining dot.
LogTokens == {"unauthor", "i", "U+0130", "zed", "403", "forbidden", "BUILD FAILURE"}

\* str.lower() of one token: the dotted capital lowers to two characters
lower_token(c) ==
    IF c = "U+0130" THEN <<"i", "U+0307">>
    ELSE IF c = "BUILD FAILURE" THEN <<"build failure">>
    ELSE <<c>>

RECURSIVE lower_line(_)
lower_line(line) ==
    IF line = << >> THEN << >> ELSE lower_token(Head(line)) \o lower_line(Tail(line))

\* log_content.lower(): line breaks stay where they are
log_lower(log_content) == [k \in 1..Len(log_content) |-> lower_line(log_content[k])]

\* re.IGNORECASE: the characters a pattern character stands for
ignorecase(c) ==
    IF c \in {"i", "U+0130"} THEN "i"
    ELSE IF c \in {"BUILD FAILURE", "build failure"} THEN "build failure"
    ELSE c

\* a literal piece of a pattern at position k of a line
piece_at(piece, line, k) ==
    /\ k + Len(piece) - 1 <= Len(line)
    /\ \A j \in 1..Len(piece) : ignorecase(line[k + j - 1]) = ignorecase(piece[j])

\* the pieces of a pattern in order on one line, ".*" between them: "." does
\* not match a line break
RECURSIVE pieces_from(_, _, _)
pieces_from(pattern, line, i) ==
    IF pattern = << >> THEN TRUE
    ELSE \E k \in i..Len(line) :
            /\ piece_at(Head(pattern), line, k)
            /\ pieces_from(Tail(pattern), line, k + Len(Head(pattern)))

\* re.search(pattern, text, re.IGNORECASE)
re_search(pattern, text) == \E l \in 1..Len(text) : pieces_from(pattern, text[l], 1)

\* r"unauthorized" and r"403.*forbidden"
SECRET_ERROR_PATTERNS == << << <<"unauthor", "i", "zed">> >>, << <<"403">>, <<"forbidden">> >> >>

\* r"BUILD FAILURE"
FIXABLE_ERROR_PATTERNS == << << <<"BUILD FAILURE">> >> >>

\* the string of no characters: no line, or one line without a token
is_empty(log_content) ==
    \/ log_content = << >>
    \/ Len(log_content) = 1 /\ log_content[1] = << >>

\* the loop over one pattern list: the pattern is searched in the lowered log
\* and then in the log itself, and the loop returns when both searches match
returns_in_loop(patterns, log_content) ==
    \E p \in 1..Len(patterns) :
        /\ re_search(patterns[p], log_lower(log_content))
        /\ re_search(patterns[p], log_content)

\* classify_error: the error type of the returned pair
classify_error(log_content) ==
    IF is_empty(log_content) THEN "unknown_error"
    ELSE IF returns_in_loop(SECRET_ERROR_PATTERNS, log_content) THEN "secret_error"
    ELSE IF returns_in_loop(FIXABLE_ERROR_PATTERNS, log_content) THEN "fixable_error"
    ELSE "unknown_error"

Lines == UNION {[1..n -> LogTokens] : n \in 0..MaxLineLen}
Logs == UNION {[1..n -> Lines] : n \in 0..MaxLines}
NoLog == << >>

\* what is known of a failed run: its log, the error type of the verification
\* result and the branch _process_gha_task takes for it
Classifier(log_content) ==
    [log_content |-> log_content, pc |-> "fetched", error_type |-> "none", branch |-> "none"]

\* ------------------------------------------------------------ command line
\* the arguments main() looks at before it builds the configuration
Args ==
    [input_exists : BOOLEAN, api_key : BOOLEAN, provider : {"ollama", "openai"},
     github_pats : 0..1, repos : 0..1, cloud_gha_verify : BOOLEAN]
DefaultArgs ==
    [input_exists |-> TRUE, api_key |-> TRUE, provider |-> "openai",
     github_pats |-> 1, repos |-> 1, cloud_gha_verify |-> FALSE]

\* the process before main() has run: the interpreter's SIGINT handler raises
\* KeyboardInterrupt in the main thread
Cli(args) ==
    [pc |-> "main", args |-> args, sigint_handler |-> "default_int_handler",
     interrupted |-> FALSE, stop_requested |-> FALSE, exit_code |-> NoExit]

\* sys.exit(code)
sys_exit(c, code) == [c EXCEPT !.pc = "exited", !.exit_code = code]

\* ------------------------------------------------------ the two worker pools
\* asyncio.Semaphore(max_concurrent) with one process_with_semaphore coroutine
\* per repository, and the max_concurrent _gha_worker coroutines: repos[r] is
\* the position of the coroutine of repository r, workers[w] that of worker w,
\* queue the number of tasks on the async queue
Pool(n, gha) ==
    [cloud_gha_verify |-> gha, semaphore |-> max_concurrent,
     repos |-> [r \in 1..n |-> "created"],
     workers |-> [w \in 1..max_concurrent |-> IF gha THEN "idle" ELSE "off"],
     queue |-> 0]

\* a semaphore that never blocks
locked_never(semaphore) == FALSE

\* asyncio.Semaphore.locked
locked(semaphore) == semaphore = 0

\* the components before their first call
ComponentsInit ==
    /\ pool = Pool(0, FALSE)
    /\ preflight = Preflight
    /\ llm_stage = LlmStage("migrate", NoReplies)
    /\ batch = Batch(<<RepoInput("alice", "app")>>)
    /\ resume_row = ResumeRow(RepoInput("alice", "app"), "travis", "success", "success")
    /\ classifier = Classifier(NoLog)
    /\ cli = Cli(DefaultArgs)
    /\ fork = Fork(FALSE, NoRefs, "travis")
    /\ detection = Detection(NoCI)
    /\ pat_rotator = PATRotator(MaxPats)
    /\ double_check = DoubleCheck(CleanVerdict)

\* ------------------------------------------------------------------- Init
\* the state after PipelineRunner.__init__, but for the configuration
RunnerInit ==
    /\ run = "first"
    /\ mainpc = "start"
    /\ file = << >>
    /\ initialized = FALSE
    /\ O = << >>
    /\ prev = [r \in Repos |-> FALSE]
    /\ repoState = [r \in Repos |-> "queued"]
    /\ ncfg = [r \in Repos |-> 0]
    /\ nextc = [r \in Repos |-> 0]
    /\ repoRes = [r \in Repos |-> "none"]
    /\ res = [id \in Ids |-> NoResult]
    /\ hist = [id \in Ids |-> NoHist]
    /\ staging = << >>
    /\ queue = << >>
    /\ pending = 0
    /\ busy = {}
    /\ exited = 0
    /\ feeder = "off"
    /\ resumedFrom = << >>
    /\ stop_requested = FALSE
    /\ gha_shutdown = FALSE
    /\ rep = NoCalls

\* the state after PipelineRunner.__init__ with one of the configurations cfgs
InitWith(cfgs) ==
    /\ config \in cfgs
    /\ RunnerInit
    /\ ComponentsInit

\* the defaults of the three override flags, every strictness, verification on or off
DefaultFlagConfigs ==
    [strictness : Strictness, cloud_gha_verify : BOOLEAN,
     pr_on_lint_fail : {FALSE}, pr_on_double_check_fail : {FALSE},
     skip_double_check_on_lint_fail : {TRUE}]

Init == InitWith(DefaultFlagConfigs)

\* --------------------------------------------------------- PipelineRunner.run
\* _resume_gha_task: the task rebuilt from a gha_pending row of the file.  The
\* gha_fix_attempts column is not among the reporter's columns, so the task
\* starts from the default fix_attempt 0.
resume_gha_task(task_data) ==
    GHAVerificationTask(<<task_data.repo, task_data.ci>>, 0, task_data.row_index)

ResumedResult == [NoResult EXCEPT !.status = "gha_pending", !.resumed = TRUE]

Run ==
    /\ mainpc = "start"
    /\ LET processed_repos == IF resume THEN load_processed_repos(file) ELSE {}
           gha_pending_tasks == IF resume /\ config.cloud_gha_verify
                                THEN load_gha_pending(file) ELSE << >>
           repos == {r \in Repos : r \notin processed_repos}
           tasks == [i \in DOMAIN gha_pending_tasks |-> resume_gha_task(gha_pending_tasks[i])]
       IN  /\ repoState' = [r \in Repos |-> IF r \in repos THEN "queued" ELSE "skipped"]
           /\ IF repos = {} /\ gha_pending_tasks = << >>
              THEN /\ mainpc' = "done"
                   /\ UNCHANGED <<file, initialized, res, queue, pending, feeder, resumedFrom>>
              ELSE /\ file' = initialize(file)
                   /\ initialized' = TRUE
                   /\ mainpc' = "processing"
                   /\ IF config.cloud_gha_verify
                      THEN /\ feeder' = "running"
                           /\ queue' = tasks
                           /\ pending' = pending + Len(tasks)
                           /\ resumedFrom' = [i \in DOMAIN gha_pending_tasks |->
                                                 gha_pending_tasks[i].row_index]
                           /\ res' = [id \in Ids |->
                                        IF \E i \in DOMAIN tasks : tasks[i].id = id
                                        THEN ResumedResult ELSE res[id]]
                      ELSE UNCHANGED <<res, queue, pending, feeder, resumedFrom>>
    /\ UNCHANGED <<config, run, O, prev, ncfg, nextc, repoRes, hist, staging, busy, exited>>
    /\ UNCHANGED <<stop_requested, gha_shutdown, rep>>
    /\ UNCHANGED componentVars

\* ------------------------------------------------------------------ main tier
RECURSIVE Sum(_, _)
Sum(f, S) == IF S = {} THEN 0 ELSE LET x == CHOOSE y \in S : TRUE IN f[x] + Sum(f, S \ {x})
Detected == Len(O) + Sum(ncfg, Repos)

Running == {r \in Repos : repoState[r] \in {"running", "staged"}}

\* Detection and the two early returns of _process_repo / _process_repo_with_gha:
\* the failed result is returned to the caller and no row is written.
Detect(r) ==
    /\ mainpc = "processing"
    /\ repoState[r] = "queued"
    /\ ~stop_requested
    /\ Cardinality(Running) < max_concurrent
    /\ \E detection_ok \in BOOLEAN, d \in 0..MaxConfigs :
         /\ d <= MaxRows - Detected
         /\ resume => Sum(ncfg, Repos) + d <= MaxResumedRows
         /\ IF ~detection_ok
            THEN /\ repoRes' = [repoRes EXCEPT ![r] = "detection_failed"]
                 /\ repoState' = [repoState EXCEPT ![r] = "done"]
                 /\ UNCHANGED <<ncfg, nextc>>
            ELSE IF d = 0
            THEN /\ repoRes' = [repoRes EXCEPT ![r] = "no_ci"]
                 /\ repoState' = [repoState EXCEPT ![r] = "done"]
                 /\ UNCHANGED <<ncfg, nextc>>
            ELSE /\ ncfg' = [ncfg EXCEPT ![r] = d]
                 /\ nextc' = [nextc EXCEPT ![r] = 1]
                 /\ repoState' = [repoState EXCEPT ![r] = "running"]
                 /\ UNCHANGED repoRes
    /\ UNCHANGED <<config, run, mainpc, file, initialized, O, prev, res, hist, staging,
                   queue, pending, busy, exited, feeder, resumedFrom>>
    /\ UNCHANGED <<stop_requested, gha_shutdown, rep>>
    /\ UNCHANGED componentVars

\* a loop that takes the same configuration again
Advance_repeat(r) ==
    /\ repoState' = [repoState EXCEPT ![r] = "running"]
    /\ UNCHANGED nextc

\* the for loop over detected_configs moves on, or the repository's worker returns
Advance(r) ==
    IF nextc[r] < ncfg[r]
    THEN /\ nextc' = [nextc EXCEPT ![r] = nextc[r] + 1]
         /\ repoState' = [repoState EXCEPT ![r] = "running"]
    ELSE /\ repoState' = [repoState EXCEPT ![r] = "done"]
         /\ UNCHANGED nextc

\* the result after migrate_ci succeeded, validate_yaml ran and
\* semantic_double_check ran or was skipped
validated(lint_passed, dc_passed) ==
    [NoResult EXCEPT !.migration = "success",
                     !.lint = IF lint_passed THEN "passed" ELSE "failed",
                     !.dc = IF ~should_run_double_check(lint_passed) THEN "skipped"
                            ELSE IF dc_passed THEN "passed" ELSE "failed"]

WriteRow(id, r) ==
    /\ file' = write_result_file(file, to_csv_row(id, r))
    /\ hist' = [hist EXCEPT ![id].writes = @ + 1]

\* _process_single_ci and the write that follows it (runtime verification off)
ProcessCI(r) ==
    /\ mainpc = "processing"
    /\ ~config.cloud_gha_verify
    /\ repoState[r] = "running"
    /\ \E migrated, lint_passed, dc_passed, pr_ok \in BOOLEAN :
         LET id == <<r, nextc[r]>>
             should_double_check == should_run_double_check(lint_passed)
             double_check_passed == (should_double_check /\ dc_passed) \/ ~should_double_check
             create == should_create_pr(lint_passed, double_check_passed)
             pr == IF ~create THEN "skipped"
                   ELSE IF config.strictness = "dry_run" THEN "skipped"
                   ELSE IF pr_ok THEN "success" ELSE "failed"
             result == IF ~migrated
                       THEN [NoResult EXCEPT !.migration = "failed", !.status = "failed"]
                       ELSE [validated(lint_passed, dc_passed) EXCEPT
                                !.pr = pr,
                                !.status = IF pr = "success" THEN "success" ELSE "partial"]
         IN  /\ res' = [res EXCEPT ![id] = result]
             /\ WriteRow(id, result)
    /\ Advance(r)
    /\ UNCHANGED <<config, run, mainpc, initialized, O, prev, ncfg, repoRes, staging, queue,
                   pending, busy, exited, feeder, resumedFrom>>
    /\ UNCHANGED <<stop_requested, gha_shutdown, rep>>
    /\ UNCHANGED componentVars

\* _process_single_ci_with_gha and the loop body of _process_repo_with_gha.
\* A failed translation returns the bare RepoResult, the caller's tuple unpacking
\* raises, and the except clause of _process_repo_with_gha returns one failed
\* result for the repository without writing anything.
ProcessCIGha(r) ==
    /\ mainpc = "processing"
    /\ config.cloud_gha_verify
    /\ repoState[r] = "running"
    /\ \E migrated, lint_passed, dc_passed, pushed \in BOOLEAN :
         LET id == <<r, nextc[r]>>
             should_double_check == should_run_double_check(lint_passed)
             double_check_passed == (should_double_check /\ dc_passed) \/ ~should_double_check
             create == should_create_pr(lint_passed, double_check_passed)
         IN  IF ~migrated
             THEN /\ res' = [res EXCEPT ![id] = [NoResult EXCEPT !.migration = "failed",
                                                                  !.status = "failed"]]
                  /\ repoRes' = [repoRes EXCEPT ![r] = "exception"]
                  /\ repoState' = [repoState EXCEPT ![r] = "done"]
                  /\ UNCHANGED <<file, hist, nextc, staging, pending>>
             ELSE IF ~create
             THEN LET result == [validated(lint_passed, dc_passed) EXCEPT
                                    !.pr = "skipped",
                                    !.status = IF lint_passed THEN "partial" ELSE "failed"]
                  IN  /\ res' = [res EXCEPT ![id] = result]
                      /\ WriteRow(id, result)
                      /\ Advance(r)
                      /\ UNCHANGED <<repoRes, staging, pending>>
             ELSE IF ~pushed
             THEN LET result == [validated(lint_passed, dc_passed) EXCEPT
                                    !.push = "failed", !.status = "failed"]
                  IN  /\ res' = [res EXCEPT ![id] = result]
                      /\ WriteRow(id, result)
                      /\ Advance(r)
                      /\ UNCHANGED <<repoRes, staging, pending>>
             ELSE /\ res' = [res EXCEPT ![id] = [validated(lint_passed, dc_passed) EXCEPT
                                                    !.push = "success",
                                                    !.status = "gha_pending"]]
                  /\ pending' = pending + 1
                  /\ staging' = Append(staging, GHAVerificationTask(id, 0, NoRowIndex))
                  /\ repoState' = [repoState EXCEPT ![r] = "staged"]
                  /\ UNCHANGED <<file, hist, nextc, repoRes>>
    /\ UNCHANGED <<config, run, mainpc, initialized, O, prev, ncfg, queue, busy, exited, feeder,
                   resumedFrom>>
    /\ UNCHANGED <<stop_requested, gha_shutdown, rep>>
    /\ UNCHANGED componentVars

\* gha_task.row_index = row_index, on the task object wherever it is by now
SetRowIndex(t, id, row_index) ==
    IF t.id = id /\ t.fix_attempt = 0 THEN [t EXCEPT !.row_index = row_index] ELSE t

\* write_result for a row whose task was staged, and the row_index assignment
WriteStaged(r) ==
    /\ mainpc = "processing"
    /\ repoState[r] = "staged"
    /\ LET id == <<r, nextc[r]>>
           row_index == write_result_return(file')
       IN  /\ WriteRow(id, res[id])
           /\ IF res[id].status = "gha_pending"
              THEN /\ staging' = [i \in DOMAIN staging |-> SetRowIndex(staging[i], id, row_index)]
                   /\ queue' = [i \in DOMAIN queue |-> SetRowIndex(queue[i], id, row_index)]
                   /\ busy' = {[b EXCEPT !.task = SetRowIndex(@, id, row_index)] : b \in busy}
              ELSE UNCHANGED <<staging, queue, busy>>
    /\ Advance(r)
    /\ UNCHANGED <<config, run, mainpc, initialized, O, prev, ncfg, repoRes, res, pending,
                   exited, feeder, resumedFrom>>
    /\ UNCHANGED <<stop_requested, gha_shutdown, rep>>
    /\ UNCHANGED componentVars

\* ------------------------------------------------------------ secondary tier
Idle == IF feeder = "off" THEN 0 ELSE max_concurrent - Cardinality(busy) - exited

\* a feeder pass that queues the staged tasks and leaves them staged
FeederDrain_no_clear ==
    /\ feeder = "running"
    /\ staging # << >>
    /\ queue' = queue \o staging
    /\ UNCHANGED <<config, run, mainpc, file, initialized, O, prev, repoState, ncfg, nextc,
                   repoRes, res, hist, staging, pending, busy, exited, feeder, resumedFrom>>
    /\ UNCHANGED <<stop_requested, gha_shutdown, rep>>
    /\ UNCHANGED componentVars

\* _gha_task_feeder: one pass of the loop body
FeederDrain ==
    /\ feeder = "running"
    /\ staging # << >>
    /\ queue' = queue \o staging
    /\ staging' = << >>
    /\ UNCHANGED <<config, run, mainpc, file, initialized, O, prev, repoState, ncfg, nextc,
                   repoRes, res, hist, pending, busy, exited, feeder, resumedFrom>>
    /\ UNCHANGED <<stop_requested, gha_shutdown, rep>>
    /\ UNCHANGED componentVars

\* _gha_worker: one pass of the loop up to the call of _process_gha_task
WorkerGet ==
    /\ Idle > 0
    /\ queue # << >>
    /\ queue' = Tail(queue)
    /\ IF Head(queue) = StopSignal
       THEN exited' = exited + 1 /\ UNCHANGED busy
       ELSE /\ busy' = busy \cup {[task |-> Head(queue), pc |-> "verify", kind |-> "none"]}
            /\ UNCHANGED exited
    /\ UNCHANGED <<config, run, mainpc, file, initialized, O, prev, repoState, ncfg, nextc,
                   repoRes, res, hist, staging, pending, feeder, resumedFrom>>
    /\ UNCHANGED <<stop_requested, gha_shutdown, rep>>
    /\ UNCHANGED componentVars

\* an off-by-one comparison against the retry budget
may_attempt_fix_inclusive(fix_attempt) == fix_attempt <= cloud_gha_retries

\* task.fix_attempt < self.config.cloud_gha_retries
may_attempt_fix(fix_attempt) == fix_attempt < cloud_gha_retries

\* the branch of _process_gha_task taken for a verification result
dispatch(kind, fix_attempt) ==
    IF kind = "success" THEN "success"
    ELSE IF kind = "secret_error" THEN "secret"
    ELSE IF kind = "fixable_error"
         THEN IF may_attempt_fix(fix_attempt) THEN "fix" ELSE "max_retries"
    ELSE "failure"

\* a finally clause that also takes back the increment of a re-enqueue
finally_pending_floor(p) == IF p > 1 THEN p - 2 ELSE 0

\* a finally clause that leaves the counter alone
finally_pending_kept(p) == p

\* the finally clause of _process_gha_task
finally_pending(p) == p - 1

\* get_latest_run_id: the first entry of the host's list of runs on the branch,
\* whatever commit started it. After a repair commit the list still begins
\* with the run of the commit before it until the host has started the new one.
\* (A wait that ends with no run listed is one of the unknown_error outcomes.)
get_latest_run_id(repaired) ==
    {"latest"} \cup (IF repaired THEN {"earlier"} ELSE {})

\* what verify_gha_run can conclude from the run it found: for the run of the
\* commit before the repair, the verdict that run already had
conclusions(r, run_id) ==
    IF run_id = "earlier" THEN {r.error_type} ELSE ErrorKinds

\* a verification whose verdict is not kept on the result
verified_unrecorded(r, kind, run_id) == [r EXCEPT !.fix_attempts = 0, !.run_id = run_id]

\* result.gha_verification = gha_result: a new GHAVerificationResult
verified(r, kind, run_id) ==
    [r EXCEPT !.error_type = kind, !.fix_attempts = 0, !.run_id = run_id]

\* completion handlers that publish the secret branch's PR as verified
complete_secret_as_verified(r0, t, branch, pr_ok) ==
    LET prs == IF pr_ok THEN "success" ELSE "failed"
    IN  IF branch \in {"success", "secret"}
        THEN [r0 EXCEPT !.fix_attempts = t.fix_attempt, !.pr = prs, !.pr_label = "verified",
                        !.status = IF pr_ok THEN "success" ELSE "partial"]
        ELSE IF branch \in {"max_retries", "failure"}
        THEN IF should_create_pr_on_gha_fail(r0.error_type, t.fix_attempt)
             THEN [r0 EXCEPT !.fix_attempts = t.fix_attempt, !.pr = prs,
                             !.pr_label = "unverified", !.status = "partial"]
             ELSE [r0 EXCEPT !.fix_attempts = t.fix_attempt, !.pr = "skipped",
                             !.status = "failed"]
        ELSE [r0 EXCEPT !.status = "failed"]

\* handlers that report success whether or not the PR was opened
complete_success_without_pr(r0, t, branch, pr_ok) ==
    LET prs == IF pr_ok THEN "success" ELSE "failed"
    IN  IF branch \in {"success", "secret"}
        THEN [r0 EXCEPT !.fix_attempts = t.fix_attempt, !.pr = prs, !.status = "success",
                        !.pr_label = IF branch = "success" THEN "verified" ELSE "secret"]
        ELSE [r0 EXCEPT !.status = "failed"]

\* _complete_gha_success, _complete_gha_secret_error, _complete_gha_max_retries,
\* _complete_gha_failure and the except clause of _process_gha_task: the result
\* they leave, with the label of the PR they publish
complete(r0, t, branch, pr_ok) ==
    LET prs == IF pr_ok THEN "success" ELSE "failed"
    IN  IF branch = "success"
        THEN [r0 EXCEPT !.fix_attempts = t.fix_attempt, !.pr = prs, !.pr_label = "verified",
                        !.status = IF pr_ok THEN "success" ELSE "partial"]
        ELSE IF branch = "secret"
        THEN [r0 EXCEPT !.pr = prs, !.pr_label = "secret",
                        !.status = IF pr_ok THEN "success" ELSE "partial"]
        ELSE IF branch \in {"max_retries", "failure"}
        THEN IF should_create_pr_on_gha_fail(r0.error_type, t.fix_attempt)
             THEN [r0 EXCEPT !.fix_attempts = t.fix_attempt, !.pr = prs,
                             !.pr_label = "unverified", !.status = "partial"]
             ELSE [r0 EXCEPT !.fix_attempts = t.fix_attempt, !.pr = "skipped",
                             !.status = "failed"]
        ELSE [r0 EXCEPT !.status = "failed"]

\* the tail shared by every completing branch: the CSV update guarded by
\* task.row_index is not None, then the finally clause
Finish(b, fixCalled, out) ==
    LET t == b.task
        upd == t.row_index # NoRowIndex
    IN  /\ res' = [res EXCEPT ![t.id] = out]
        /\ file' = IF upd THEN update_result(file, t.row_index, to_csv_row(t.id, out))
                   ELSE file
        /\ hist' = [hist EXCEPT ![t.id].updates = @ + (IF upd THEN 1 ELSE 0),
                                ![t.id].prCalls = @ + (IF out.pr_label # "none" THEN 1 ELSE 0),
                                ![t.id].fixCalls = @ + (IF fixCalled THEN 1 ELSE 0)]
        /\ pending' = finally_pending(pending)
        /\ busy' = busy \ {b}
        /\ UNCHANGED queue

\* _process_gha_task from the return of verify_gha_run to the first await of a
\* repair, or to its end when no repair is attempted
WorkerVerify ==
    /\ \E b \in busy, pr_ok \in BOOLEAN :
       \E run_id \in get_latest_run_id(hist[b.task.id].commits > 0) :
       \E kind \in conclusions(res[b.task.id], run_id) :
         /\ b.pc = "verify"
         /\ LET t == b.task
                branch == dispatch(kind, t.fix_attempt)
                r0 == verified(res[t.id], kind, run_id)
            IN  IF branch = "fix"
                THEN /\ busy' = (busy \ {b}) \cup {[task |-> t, pc |-> "fix", kind |-> kind]}
                     /\ res' = [res EXCEPT ![t.id] = r0]
                     /\ UNCHANGED <<file, hist, pending, queue>>
                ELSE Finish(b, FALSE, complete(r0, t, branch, pr_ok))
    /\ UNCHANGED <<config, run, mainpc, initialized, O, prev, repoState, ncfg, nextc, repoRes,
                   staging, exited, feeder, resumedFrom>>
    /\ UNCHANGED <<stop_requested, gha_shutdown, rep>>
    /\ UNCHANGED componentVars

\* _attempt_gha_fix from the return of fix_and_push_workflow to the end of
\* _process_gha_task
WorkerFix ==
    /\ \E b \in busy, fix \in {"fixed", "failed", "raised"}, pr_ok \in BOOLEAN :
         /\ b.pc = "fix"
         /\ LET t == b.task
                upd == t.row_index # NoRowIndex
                new_task == GHAVerificationTask(t.id, t.fix_attempt + 1, t.row_index)
                fixed == [res[t.id] EXCEPT !.fix_attempts = t.fix_attempt + 1]
            IN  IF fix = "fixed"
                THEN /\ res' = [res EXCEPT ![t.id] = fixed]
                     /\ file' = IF upd
                                THEN update_result(file, t.row_index, to_csv_row(t.id, fixed))
                                ELSE file
                     /\ hist' = [hist EXCEPT ![t.id].updates = @ + (IF upd THEN 1 ELSE 0),
                                             ![t.id].pendingUpdates = @ + (IF upd THEN 1 ELSE 0),
                                             ![t.id].fixCalls = @ + 1,
                                             ![t.id].commits = @ + 1]
                     /\ pending' = finally_pending(pending + 1)
                     /\ queue' = Append(queue, new_task)
                     /\ busy' = busy \ {b}
                ELSE IF fix = "failed"
                THEN Finish(b, TRUE, complete(res[t.id], t, "max_retries", pr_ok))
                ELSE Finish(b, TRUE, complete(res[t.id], t, "exception", pr_ok))
    /\ UNCHANGED <<config, run, mainpc, initialized, O, prev, repoState, ncfg, nextc, repoRes,
                   staging, exited, feeder, resumedFrom>>
    /\ UNCHANGED <<stop_requested, gha_shutdown, rep>>
    /\ UNCHANGED componentVars

\* ---------------------------------------------------- end of the run's main body
\* asyncio.gather over the repositories has returned
GatherDone ==
    /\ mainpc = "processing"
    /\ \A r \in Repos : repoState[r] \in {"done", "skipped"}
    /\ mainpc' = IF config.cloud_gha_verify THEN "waiting" ELSE "done"
    /\ UNCHANGED <<config, run, file, initialized, O, prev, repoState, ncfg, nextc, repoRes,
                   res, hist, staging, queue, pending, busy, exited, feeder, resumedFrom>>
    /\ UNCHANGED <<stop_requested, gha_shutdown, rep>>
    /\ UNCHANGED componentVars

\* the wait loop on _gha_pending_count has ended: the feeder is cancelled (its
\* handler flushes what is staged; "flushed" when there was something) and one
\* None per worker is queued
DrainDone ==
    /\ mainpc = "waiting"
    /\ ~(pending > 0 /\ ~gha_shutdown)
    /\ feeder' = IF staging = << >> THEN "cancelled" ELSE "flushed"
    /\ queue' = queue \o staging \o [w \in 1..max_concurrent |-> StopSignal]
    /\ staging' = << >>
    /\ mainpc' = "joining"
    /\ UNCHANGED <<config, run, file, initialized, O, prev, repoState, ncfg, nextc, repoRes,
                   res, hist, pending, busy, exited, resumedFrom>>
    /\ UNCHANGED <<stop_requested, gha_shutdown, rep>>
    /\ UNCHANGED componentVars

\* asyncio.gather over the workers has returned
JoinDone ==
    /\ mainpc = "joining"
    /\ exited = max_concurrent
    /\ mainpc' = "done"
    /\ UNCHANGED <<config, run, file, initialized, O, prev, repoState, ncfg, nextc, repoRes,
                   res, hist, staging, queue, pending, busy, exited, feeder, resumedFrom>>
    /\ UNCHANGED <<stop_requested, gha_shutdown, rep>>
    /\ UNCHANGED componentVars

\* ------------------------------------------------- signal and shutdown
\* handle_shutdown: SIGINT or SIGTERM while _run_with_gha_verify has its
\* handlers installed
Signal ==
    /\ config.cloud_gha_verify
    /\ mainpc \in {"processing", "waiting", "joining"}
    /\ ~stop_requested
    /\ stop_requested' = TRUE
    /\ UNCHANGED <<config, run, mainpc, file, initialized, O, prev, repoState, ncfg, nextc,
                   repoRes, res, hist, staging, queue, pending, busy, exited, feeder,
                   resumedFrom, gha_shutdown, rep>>
    /\ UNCHANGED componentVars

\* shutdown_countdown: the grace period is over, or nothing is pending
GraceExpired ==
    /\ stop_requested
    /\ ~gha_shutdown
    /\ mainpc \in {"processing", "waiting", "joining"}
    /\ gha_shutdown' = TRUE
    /\ UNCHANGED <<config, run, mainpc, file, initialized, O, prev, repoState, ncfg, nextc,
                   repoRes, res, hist, staging, queue, pending, busy, exited, feeder,
                   resumedFrom, stop_requested, rep>>
    /\ UNCHANGED componentVars

\* process_with_semaphore after a signal: the repository is not processed
SkipStopped(r) ==
    /\ mainpc = "processing"
    /\ repoState[r] = "queued"
    /\ stop_requested
    /\ Cardinality(Running) < max_concurrent
    /\ repoState' = [repoState EXCEPT ![r] = "done"]
    /\ UNCHANGED <<config, run, mainpc, file, initialized, O, prev, ncfg, nextc,
                   repoRes, res, hist, staging, queue, pending, busy, exited, feeder,
                   resumedFrom, stop_requested, gha_shutdown, rep>>
    /\ UNCHANGED componentVars

\* _gha_worker: the check at the top of the loop finds the event set
WorkerBreak ==
    /\ Idle > 0
    /\ gha_shutdown
    /\ exited' = exited + 1
    /\ UNCHANGED <<config, run, mainpc, file, initialized, O, prev, repoState, ncfg, nextc,
                   repoRes, res, hist, staging, queue, pending, busy, feeder,
                   resumedFrom, stop_requested, gha_shutdown, rep>>
    /\ UNCHANGED componentVars

\* ------------------------------------------------------- kill and --resume
\* what the ended run did with a repository: its worker returned and none of its
\* results is still gha_pending
FinishedNonPending(r) ==
    /\ repoState[r] = "done"
    /\ \A c \in Cis : res[<<r, c>>].status # "gha_pending"

FreshProcess ==
    /\ initialized' = FALSE
    /\ repoState' = [r \in Repos |-> "queued"]
    /\ ncfg' = [r \in Repos |-> 0]
    /\ nextc' = [r \in Repos |-> 0]
    /\ repoRes' = [r \in Repos |-> "none"]
    /\ res' = [id \in Ids |-> NoResult]
    /\ hist' = [id \in Ids |-> NoHist]
    /\ staging' = << >>
    /\ queue' = << >>
    /\ pending' = 0
    /\ busy' = {}
    /\ exited' = 0
    /\ feeder' = "off"
    /\ resumedFrom' = << >>
    /\ stop_requested' = FALSE
    /\ gha_shutdown' = FALSE
    /\ UNCHANGED rep

\* the process of the first run is killed; only the output file survives
Crash ==
    /\ run = "first"
    /\ mainpc \in {"processing", "waiting", "joining"}
    /\ mainpc' = "dead"
    /\ prev' = [r \in Repos |-> FinishedNonPending(r)]
    /\ FreshProcess
    /\ UNCHANGED <<config, run, file, O>>
    /\ UNCHANGED componentVars

\* the pipeline is started again with --resume on the same input and output
Restart ==
    /\ run = "first"
    /\ mainpc \in {"dead", "done"}
    /\ run' = "resumed"
    /\ mainpc' = "start"
    /\ O' = file
    /\ prev' = IF mainpc = "done" THEN [r \in Repos |-> FinishedNonPending(r)] ELSE prev
    /\ FreshProcess
    /\ UNCHANGED <<config, file>>
    /\ UNCHANGED componentVars

\* the pipeline is started again with --resume and --dry-run added
RestartDryRun ==
    /\ run = "first"
    /\ mainpc \in {"dead", "done"}
    /\ config.strictness # "dry_run"
    /\ run' = "resumed"
    /\ mainpc' = "start"
    /\ O' = file
    /\ prev' = IF mainpc = "done" THEN [r \in Repos |-> FinishedNonPending(r)] ELSE prev
    /\ FreshProcess
    /\ config' = [config EXCEPT !.strictness = "dry_run"]
    /\ UNCHANGED file
    /\ UNCHANGED componentVars

Next ==
    \/ Run
    \/ \E r \in Repos : Detect(r)
    \/ \E r \in Repos : ProcessCI(r)
    \/ \E r \in Repos : ProcessCIGha(r)
    \/ \E r \in Repos : WriteStaged(r)
    \/ FeederDrain
    \/ WorkerGet
    \/ WorkerVerify
    \/ WorkerFix
    \/ GatherDone
    \/ DrainDone
    \/ JoinDone
    \/ Crash
    \/ Restart
    \/ RestartDryRun

Spec == Init /\ [][Next]_vars

\* ------------------------------------------- runs with runtime verification
\* The runs of _run_with_gha_verify that no signal interrupts, in which every
\* await returns: each coroutine and each pool thread that can take a step
\* eventually takes it.  The gates of permissive let through every result that
\* those of strict and lint_only let through and the queue behind the gates is
\* the same for all three: the runs of permissive are left to Spec.
GhaInit == Init /\ config.cloud_gha_verify /\ config.strictness # "permissive"

GhaNext ==
    \/ Run
    \/ \E r \in Repos : Detect(r)
    \/ \E r \in Repos : ProcessCIGha(r)
    \/ \E r \in Repos : WriteStaged(r)
    \/ FeederDrain
    \/ WorkerGet
    \/ WorkerVerify
    \/ WorkerFix
    \/ GatherDone
    \/ DrainDone
    \/ JoinDone
    \/ Restart

GhaSpec ==
    /\ GhaInit
    /\ [][GhaNext]_vars
    /\ WF_vars(Run)
    /\ WF_vars(\E r \in Repos : Detect(r))
    /\ WF_vars(\E r \in Repos : ProcessCIGha(r))
    /\ WF_vars(\E r \in Repos : WriteStaged(r))
    /\ WF_vars(FeederDrain)
    /\ WF_vars(WorkerGet)
    /\ WF_vars(WorkerVerify)
    /\ WF_vars(WorkerFix)
    /\ WF_vars(GatherDone)
    /\ WF_vars(DrainDone)
    /\ WF_vars(JoinDone)

\* ---------------------------------------------------------------- claims
Tasks == Range(staging) \cup Range(queue) \cup {b.task : b \in busy}

\* _run_with_gha_verify has returned with nothing left behind
Ended ==
    /\ mainpc = "done"
    /\ pending = 0
    /\ exited = max_concurrent
    /\ Tasks \subseteq {StopSignal}
    /\ busy = {}
    /\ \A id \in Ids : res[id].status # "gha_pending"

\* C1: without an interrupt and with every external call returning, a run of
\* _run_with_gha_verify that has started processing eventually returns with the
\* pending counter at 0, every secondary worker exited, no task left, and every
\* result that was handed to the verification queue at a terminal status.
C1_Terminates == (mainpc = "processing") ~> Ended

\* a run returned after a chain of verify, repair, verify
C1_Witness ==
    /\ Ended
    /\ \E id \in Ids : hist[id].fixCalls > 0 /\ res[id].status \in Terminal

\* the repair agent is running for a task only under the guard of the dispatch,
\* and no task anywhere is past the retry budget
C2_State ==
    /\ \A b \in busy : b.pc = "fix" =>
         b.kind = "fixable_error" /\ b.task.fix_attempt < cloud_gha_retries
    /\ \A t \in Tasks : t.fix_attempt <= cloud_gha_retries

\* a task that leaves the repair with something enqueued is replaced by the same
\* task with fix_attempt one greater
C2_Step ==
    \A b \in busy :
        (b.pc = "fix" /\ b \notin busy' /\ Len(queue') > Len(queue)) =>
            queue' = Append(queue, [b.task EXCEPT !.fix_attempt = @ + 1])

\* C2: the repair agent is invoked for a task only when the verification's error
\* kind is fixable and task.fix_attempt < cloud_gha_retries (never for success,
\* secret, timeout or unknown); every task staged, queued or held by a worker has
\* fix_attempt <= cloud_gha_retries, and a re-enqueued task has fix_attempt
\* exactly one greater than the task it replaces.
C2_RepairBounded == []C2_State /\ [][C2_Step]_vars

\* a repaired workflow is back in the queue on its last allowed attempt
C2_Witness ==
    \E i \in DOMAIN queue :
        /\ queue[i].fix_attempt = cloud_gha_retries
        /\ queue[i].fix_attempt > 0
        /\ hist[queue[i].id].fixCalls = queue[i].fix_attempt

Resumed == run = "resumed" /\ mainpc \notin {"start", "dead"}

\* C4, as stated: in the resumed run every terminal row of O is in the file
\* unchanged, and every gha_pending row of O is still in the file, terminalised or
\* not: initialising the reporter drops or rewrites no existing row.
C4_AsStated ==
    Resumed =>
        \A i \in DOMAIN O :
            /\ i \in DOMAIN file
            /\ file[i].repo = O[i].repo
            /\ O[i].status \in Terminal => file[i] = O[i]

\* C5, as stated: a repository the earlier run finished with no result left
\* gha_pending, whatever way it finished, is not handed to the main tier again.
C5_AsStated ==
    Resumed => \A r \in Repos : prev[r] => repoState[r] = "skipped"

PendingIndexes == {i \in DOMAIN O : O[i].status = "gha_pending"}

\* what the resumed run with runtime verification was handed
C6_State ==
    (Resumed /\ config.cloud_gha_verify /\ initialized) =>
        /\ \A i \in PendingIndexes :
             Cardinality({j \in DOMAIN resumedFrom : resumedFrom[j] = i}) = 1
        /\ Range(resumedFrom) = PendingIndexes
        /\ \A r \in Repos :
             IF \E i \in DOMAIN O : O[i].repo = r
             THEN repoState[r] = "skipped"
             ELSE repoState[r] # "skipped"

\* the step of run() that resumes: one task per gha_pending row is put on the
\* queue and the pending counter grows by one per row
C6_Step ==
    (resume /\ config.cloud_gha_verify /\ mainpc = "start" /\ mainpc' = "processing") =>
        /\ pending' = pending + Cardinality(PendingIndexes)
        /\ Len(queue') = Cardinality(PendingIndexes)
        /\ \A i \in PendingIndexes :
             Cardinality({j \in DOMAIN queue' :
                 /\ queue'[j].row_index = i
                 /\ queue'[j].id = <<O[i].repo, O[i].ci>>}) = 1

\* C6: in resume mode with runtime verification enabled, each gha_pending row of
\* the existing file is re-enqueued as exactly one task (the pending counter is
\* incremented by one per row), its repository is not handed to the main tier,
\* and every input repository with no row in the file is.
C6_ResumeRequeues == []C6_State /\ [][C6_Step]_vars

\* a resumed run with a row to verify again and a repository to process fresh
C6_Witness ==
    /\ Resumed /\ config.cloud_gha_verify /\ initialized
    /\ PendingIndexes # {}
    /\ pending >= Cardinality(PendingIndexes)
    /\ \E r \in Repos : repoState[r] = "running" /\ \A i \in DOMAIN O : O[i].repo # r

RowsOf(r) == {i \in DOMAIN file : file[i].repo = r}

\* C7, as stated: a repository whose worker returned after detection found
\* k >= 1 configurations has exactly k rows written, one per configuration,
\* whichever stage failed, with and without runtime verification.
C7_AsStated ==
    \A r \in Repos :
        (repoState[r] = "done" /\ ncfg[r] >= 1) =>
            \A c \in 1..ncfg[r] : hist[<<r, c>>].writes = 1

\* C8, as stated: a repository whose detection succeeded with an empty set has
\* exactly one row in the file, with overall_status failed, and no later stage ran.
C8_AsStated ==
    \A r \in Repos :
        (repoState[r] = "done" /\ repoRes[r] = "no_ci") =>
            /\ Cardinality(RowsOf(r)) = 1
            /\ \A i \in RowsOf(r) : file[i].status = "failed"
            /\ \A c \in Cis : hist[<<r, c>>] = NoHist

\* the verification of id has ended for good with one of these kinds
EndedAs(id, kinds) ==
    /\ res[id].error_type \in kinds
    /\ res[id].status # "gha_pending"
    /\ \A t \in Tasks : t.id # id

\* C9, as stated: when runtime verification ended with success or with a secret
\* error, no repair ran for that verification, the PR publisher was called exactly
\* once (with the secret caveat for a secret error), the row was updated, and the
\* overall status is success whenever the PR was opened.
C9_AsStated ==
    \A id \in Ids :
        EndedAs(id, {"success", "secret_error"}) =>
            /\ hist[id].prCalls = 1
            /\ res[id].error_type = "secret_error" <=> res[id].pr_label = "secret"
            /\ hist[id].updates = hist[id].pendingUpdates + 1
            /\ res[id].pr = "success" => res[id].status = "success"

\* C10, as stated: when a task ended as fixable with the retries used up, as
\* timeout or as unknown, strict and dry_run created no PR (under strict the PR
\* stage is skipped and the row failed), lint_only and permissive created a
\* caveated PR, and in every case the row was updated.
C10_AsStated ==
    \A id \in Ids :
        (/\ EndedAs(id, {"fixable_error", "timeout_error", "unknown_error"})
         /\ res[id].pr # "pending") =>
            /\ config.strictness \in {"strict", "dry_run"} => hist[id].prCalls = 0
            /\ config.strictness = "strict" =>
                 res[id].pr = "skipped" /\ res[id].status = "failed"
            /\ config.strictness \in {"lint_only", "permissive"} =>
                 hist[id].prCalls = 1 /\ res[id].pr_label = "unverified"
            /\ hist[id].updates = hist[id].pendingUpdates + 1

\* ------------------------------------------------- the main tier, every flag
\* The main tier of one run under every setting of strictness, of the three
\* override flags and of cloud_gha_verify.
AllFlagConfigs ==
    [strictness : Strictness, cloud_gha_verify : BOOLEAN,
     pr_on_lint_fail : BOOLEAN, pr_on_double_check_fail : BOOLEAN,
     skip_double_check_on_lint_fail : BOOLEAN]

PolicyInit == InitWith(AllFlagConfigs)

PolicyNext ==
    \/ Run
    \/ \E r \in Repos : Detect(r)
    \/ \E r \in Repos : ProcessCI(r)
    \/ \E r \in Repos : ProcessCIGha(r)
    \/ \E r \in Repos : WriteStaged(r)
    \/ GatherDone

PolicySpec == PolicyInit /\ [][PolicyNext]_vars

\* the row went past the strictness decision of the main tier
Decided(id) == res[id].migration = "success"

\* the PR stage (create_pull_request outside dry-run) or the fork writer
\* (push_to_fork) was invoked for the row
Acted(id) == res[id].pr \in {"success", "failed"} \/ res[id].push # "pending"

\* C11, as stated: under strict no PR is opened and no fork push is made for a
\* row whose lint failed or whose semantic verification failed, whatever the
\* override flags are.
C11_AsStated ==
    config.strictness = "strict" =>
        \A id \in Ids :
            (Decided(id) /\ (res[id].lint = "failed" \/ res[id].dc = "failed")) => ~Acted(id)

\* C11: under strict, a PR or fork push is made for a lint-failed row exactly
\* when pr_on_lint_fail is set, and for a lint-passed row whose semantic
\* verification failed exactly when pr_on_double_check_fail is set.
C11_StrictWithOverrides ==
    config.strictness = "strict" =>
        \A id \in Ids :
            Decided(id) =>
                /\ res[id].lint = "failed" => (Acted(id) <=> config.pr_on_lint_fail)
                /\ (res[id].lint = "passed" /\ res[id].dc = "failed") =>
                       (Acted(id) <=> config.pr_on_double_check_fail)

\* strict, no override: a row with lint and semantic verification both failed
\* was left without PR and without push
C11_Witness ==
    /\ config.strictness = "strict"
    /\ ~config.pr_on_lint_fail /\ ~config.pr_on_double_check_fail
    /\ \E id \in Ids :
         /\ Decided(id) /\ res[id].lint = "failed" /\ res[id].dc = "failed"
         /\ res[id].pr = "skipped" /\ ~Acted(id)

\* C12: under lint_only a PR or fork push is made for a lint-failed row if and
\* only if pr_on_lint_fail is set, and for every lint-passed row whatever the
\* semantic verdict; under permissive it is made for every row, whatever the
\* lint and semantic results.
C12_LintOnlyPermissive ==
    \A id \in Ids :
        Decided(id) =>
            /\ config.strictness = "lint_only" =>
                 /\ res[id].lint = "failed" => (Acted(id) <=> config.pr_on_lint_fail)
                 /\ res[id].lint = "passed" => Acted(id)
            /\ config.strictness = "permissive" => Acted(id)

\* lint_only went on with a row whose semantic verification failed
C12_Witness ==
    /\ config.strictness = "lint_only"
    /\ \E id \in Ids :
         Decided(id) /\ res[id].lint = "passed" /\ res[id].dc = "failed" /\ Acted(id)

StageOrder(r) ==
    /\ r.lint # "pending" => r.migration = "success"
    /\ r.dc # "pending" => r.lint # "pending"
    /\ r.push # "pending" => r.dc # "pending"
    /\ r.error_type # "none" => r.push = "success"
    /\ (config.cloud_gha_verify /\ r.pr \in {"success", "failed"}) => r.error_type # "none"
    /\ (~config.cloud_gha_verify /\ r.pr # "pending") => r.dc # "pending"
    /\ r.migration = "failed" =>
           r.lint = "pending" /\ r.dc = "pending" /\ r.push = "pending"
           /\ r.error_type = "none" /\ r.pr = "pending"

C14_State ==
    \A id \in Ids :
        /\ ~res[id].resumed => StageOrder(res[id])
        /\ (config.cloud_gha_verify /\ hist[id].prCalls > 0) => res[id].error_type # "none"
        /\ hist[id].commits > 0 => res[id].error_type # "none"

C14_Step ==
    \A id \in Ids :
        \/ res'[id] \in {NoResult, ResumedResult}
        \/ /\ res[id].migration # "pending" => res'[id].migration = res[id].migration
           /\ res[id].lint # "pending" => res'[id].lint = res[id].lint
           /\ res[id].dc # "pending" => res'[id].dc = res[id].dc
           /\ res[id].push # "pending" => res'[id].push = res[id].push
           /\ res[id].pr # "pending" => res'[id].pr = res[id].pr
           /\ res'[id].error_type # res[id].error_type =>
                  res[id].status = "gha_pending" /\ res[id].pr = "pending"
           /\ hist'[id].commits > hist[id].commits =>
                  res[id].error_type # "none" /\ res'[id].pr = "pending"
           /\ hist'[id].prCalls > hist[id].prCalls =>
                  res'[id].error_type # "none" /\ res[id].pr = "pending"

\* C14: the stage outcomes of a row are produced in the order translate,
\* validate, semantic verify, fork-and-push, runtime verify (alternating with
\* repair), PR publish: a stage has an outcome only when the stages before it
\* have one, an outcome once recorded is not revised, no stage follows a failed
\* translation, and with runtime verification the PR Publisher is called only
\* for a row that has a runtime verdict.
C14_StagesInOrder == [](C14_State) /\ [][C14_Step]_vars

\* a row went through every stage: pushed, verified, repaired, verified again
\* and published
C14_Witness ==
    /\ config.cloud_gha_verify
    /\ \E id \in Ids :
         /\ ~res[id].resumed /\ res[id].migration = "success" /\ res[id].push = "success"
         /\ hist[id].commits > 0 /\ res[id].error_type # "none"
         /\ hist[id].prCalls = 1 /\ res[id].pr = "success"

\* C15, as stated: the workflow run a task's verdict comes from was started by
\* the most recent push for that task, never by an earlier commit on the branch.
C15_AsStated ==
    \A id \in Ids : res[id].run_id # "earlier"

\* C16, as stated: when a row leaves gha_pending its recorded gha_fix_attempts
\* equals the number of repairs committed for the row, whichever branch
\* finalises it (rows verified from their first push on, in one run).
C16_AsStated ==
    \A id \in Ids :
        (~res[id].resumed /\ res[id].push = "success" /\ res[id].status \in Terminal) =>
            res[id].fix_attempts = hist[id].commits

\* ------------------------------------------- the reporter under both tiers
\* CSVReporter as its two callers use it within one run: the pool threads of
\* the main tier are inside write_result while the event loop is inside
\* update_result. Neither method takes a lock and neither caller holds one.
\* write_result appends through a handle opened with mode "a": the row lands
\* at the end the file has at that moment. update_result rewrites the whole
\* file: it reads the rows, replaces one, and writes them back.
ReporterRows == [repo : Repos, ci : 1..MaxConfigs, status : {"gha_pending", "failed"}]

ReporterInit == GhaInit

\* a pool thread enters write_result with the row of a configuration
WriteBegin ==
    /\ \E row \in ReporterRows :
         /\ Cardinality(rep.writers) < max_concurrent
         /\ Len(rep.latest) + Cardinality(rep.writers) < MaxRows
         /\ \A w \in rep.writers \cup Range(rep.latest) : <<w.repo, w.ci>> # <<row.repo, row.ci>>
         /\ rep' = [rep EXCEPT !.writers = @ \cup {row}]
    /\ UNCHANGED <<config, run, mainpc, file, initialized, O, prev, repoState, ncfg, nextc,
                   repoRes, res, hist, staging, queue, pending, busy, exited, feeder,
                   resumedFrom, stop_requested, gha_shutdown>>
    /\ UNCHANGED componentVars

\* writer.writerow and the close of the handle
WriteEnd ==
    /\ \E row \in rep.writers :
         /\ file' = write_result_file(file, row)
         /\ rep' = [rep EXCEPT !.writers = @ \ {row}, !.latest = Append(@, row)]
    /\ UNCHANGED <<config, run, mainpc, initialized, O, prev, repoState, ncfg, nextc,
                   repoRes, res, hist, staging, queue, pending, busy, exited, feeder,
                   resumedFrom, stop_requested, gha_shutdown>>
    /\ UNCHANGED componentVars

\* the event loop enters update_result for a gha_pending row and reads the file
UpdateBegin ==
    /\ rep.updater = NoUpdate
    /\ \E i \in DOMAIN rep.latest, status \in Terminal :
         /\ rep.latest[i].status = "gha_pending"
         /\ LET row == [rep.latest[i] EXCEPT !.status = status]
            IN  rep' = [rep EXCEPT !.updater = [row_index |-> i, row |-> row, rows |-> file],
                                   !.latest[i] = row]
    /\ UNCHANGED <<config, run, mainpc, file, initialized, O, prev, repoState, ncfg, nextc,
                   repoRes, res, hist, staging, queue, pending, busy, exited, feeder,
                   resumedFrom, stop_requested, gha_shutdown>>
    /\ UNCHANGED componentVars

\* update_result writes the rows back
UpdateEnd ==
    /\ rep.updater # NoUpdate
    /\ file' = update_result(rep.updater.rows, rep.updater.row_index, rep.updater.row)
    /\ rep' = [rep EXCEPT !.updater = NoUpdate]
    /\ UNCHANGED <<config, run, mainpc, initialized, O, prev, repoState, ncfg, nextc,
                   repoRes, res, hist, staging, queue, pending, busy, exited, feeder,
                   resumedFrom, stop_requested, gha_shutdown>>
    /\ UNCHANGED componentVars

ReporterNext ==
    \/ WriteBegin
    \/ WriteEnd
    \/ UpdateBegin
    \/ UpdateEnd

ReporterSpec == ReporterInit /\ [][ReporterNext]_vars

\* C17, as stated: whatever the interleaving of the write_result calls of the
\* pool threads and the update_result calls of the secondary tier, once no call
\* is in progress the file holds every written row exactly once, each with its
\* latest update.
C17_AsStated ==
    (rep.writers = {} /\ rep.updater = NoUpdate) => file = rep.latest

\* C18, as stated: write_result returns a row index that identifies the row
\* just appended (so every task whose row was written carries the index of its
\* own row), strictly greater than every index returned before.
C18_AsStated ==
    \A t \in Tasks \ {StopSignal} :
        (~res[t.id].resumed /\ hist[t.id].writes > 0) =>
            /\ t.row_index \in DOMAIN file
            /\ file[t.row_index].repo = t.id[1]
            /\ file[t.row_index].ci = t.id[2]

\* ------------------------------------------------------ interrupted runs
\* Runs with runtime verification that a signal may interrupt, and the
\* --resume run after them.
ShutdownNext ==
    \/ Run
    \/ \E r \in Repos : Detect(r)
    \/ \E r \in Repos : SkipStopped(r)
    \/ \E r \in Repos : ProcessCIGha(r)
    \/ \E r \in Repos : WriteStaged(r)
    \/ FeederDrain
    \/ WorkerGet
    \/ WorkerBreak
    \/ WorkerVerify
    \/ WorkerFix
    \/ GatherDone
    \/ DrainDone
    \/ JoinDone
    \/ Signal
    \/ GraceExpired
    \/ Restart

\* the strictness decides which rows become tasks and plays no part in the
\* shutdown: the runs start under the default one
ShutdownInit == GhaInit /\ config.strictness = "strict"

ShutdownSpec == ShutdownInit /\ [][ShutdownNext]_vars

\* the rows of the file that belong to a configuration (a resumed result has
\* lost its detected_ci)
RowsFor(id) ==
    {i \in DOMAIN file :
        file[i].repo = id[1] /\ (file[i].ci = id[2] \/ (res[id].resumed /\ file[i].ci = 0))}

\* the interrupted run has returned
Interrupted == mainpc = "done" /\ stop_requested

\* C19, as stated: after an interrupted run has ended, every row whose runtime
\* verification did not complete is in the file as gha_pending, and no row
\* that is terminal in the file has an outstanding task.
C19_AsStated ==
    Interrupted =>
        /\ \A id \in Ids :
             res[id].status = "gha_pending" =>
                 \E i \in RowsFor(id) : file[i].status = "gha_pending"
        /\ \A t \in Tasks \ {StopSignal} :
             \A i \in RowsFor(t.id) : file[i].status \notin Terminal

\* C20, as stated: once the shutdown event is set no secondary worker takes a
\* task from the queue, starts or commits a repair, opens a PR or updates a row.
C20_AsStated ==
    [][gha_shutdown =>
          /\ \A b \in busy' : b.pc = "verify" => b \in busy
          /\ \A id \in Ids :
               /\ hist'[id].fixCalls <= hist[id].fixCalls
               /\ hist'[id].commits <= hist[id].commits
               /\ hist'[id].prCalls <= hist[id].prCalls
               /\ hist'[id].updates <= hist[id].updates]_vars

\* --------------------------------------------------- the token pool alone
\* PATRotator under any sequence of get_pat and mark_rate_limited calls, for
\* every number of credentials up to MaxPats. Both methods hold the lock for
\* their whole body, so each call is one step.
DefaultConfig ==
    [strictness |-> "strict", cloud_gha_verify |-> FALSE, pr_on_lint_fail |-> FALSE,
     pr_on_double_check_fail |-> FALSE, skip_double_check_on_lint_fail |-> TRUE]

TokenInit ==
    /\ config = DefaultConfig
    /\ RunnerInit
    /\ pat_rotator \in {PATRotator(n) : n \in 1..MaxPats}
    /\ double_check = DoubleCheck(CleanVerdict)
    /\ detection = Detection(NoCI)
    /\ fork = Fork(FALSE, NoRefs, "travis")
    /\ cli = Cli(DefaultArgs)
    /\ pool = Pool(0, FALSE)
    /\ preflight = Preflight
    /\ llm_stage = LlmStage("migrate", NoReplies)
    /\ batch = Batch(<<RepoInput("alice", "app")>>)
    /\ resume_row = ResumeRow(RepoInput("alice", "app"), "travis", "success", "success")
    /\ classifier = Classifier(NoLog)

GetPat ==
    /\ pat_rotator' = get_pat(pat_rotator)
    /\ UNCHANGED <<runnerVars, double_check, detection, fork, cli, pool, preflight, llm_stage, batch, resume_row, classifier>>

MarkRateLimited ==
    /\ pat_rotator' = mark_rate_limited(pat_rotator)
    /\ UNCHANGED <<runnerVars, double_check, detection, fork, cli, pool, preflight, llm_stage, batch, resume_row, classifier>>

TokenNext ==
    \/ GetPat
    \/ MarkRateLimited

TokenSpec == TokenInit /\ [][TokenNext]_vars

\* C21: with at least two credentials, the get_pat that follows a
\* mark_rate_limited returns a credential other than the one just marked, also
\* when the mark made every credential throttled and the set was cleared.
C21_NextDiffers ==
    (pat_rotator.n >= 2 /\ pat_rotator.seq = "mark_get") =>
        pat_rotator.got # pat_rotator.marked

\* the mark throttled the last free credential, and the next get_pat cleared
\* the set and returned another one
C21_Witness ==
    /\ pat_rotator.n >= 2
    /\ pat_rotator.seq = "mark_get"
    /\ pat_rotator.rate_limited = {}
    /\ pat_rotator.marked # NoPat
    /\ pat_rotator.got # pat_rotator.marked

\* ------------------------------------------------ the double check alone
\* One verdict of the verifier model, any of the bounded ones, handed either
\* to the pipeline's double-check stage or to the backend's endpoint helper.
MaxSteps == 2

SeqsUpTo(S, n) == UNION {[1..k -> S] : k \in 0..n}

Verdicts ==
    [passed : BOOLEAN, missing_features : SeqsUpTo(Features, 1),
     hallucinated_steps : SeqsUpTo(StepNames, MaxSteps)]

VerifierInit ==
    /\ config = DefaultConfig
    /\ RunnerInit
    /\ pat_rotator = PATRotator(MaxPats)
    /\ double_check \in {DoubleCheck(raw) : raw \in Verdicts}
    /\ detection = Detection(NoCI)
    /\ fork = Fork(FALSE, NoRefs, "travis")
    /\ cli = Cli(DefaultArgs)
    /\ pool = Pool(0, FALSE)
    /\ preflight = Preflight
    /\ llm_stage = LlmStage("migrate", NoReplies)
    /\ batch = Batch(<<RepoInput("alice", "app")>>)
    /\ resume_row = ResumeRow(RepoInput("alice", "app"), "travis", "success", "success")
    /\ classifier = Classifier(NoLog)

\* runner.py 884 / 1129: result.double_check = semantic_double_check(...)
PipelineDoubleCheck ==
    /\ double_check.pc = "llm"
    /\ LET r == semantic_double_check(double_check.raw)
       IN  double_check' = [double_check EXCEPT !.pc = "pipeline", !.passed = r.passed,
                                                !.hallucinated_steps = r.hallucinated_steps]
    /\ UNCHANGED <<runnerVars, pat_rotator, detection, fork, cli, pool, preflight, llm_stage, batch, resume_row, classifier>>

\* backend/main.py: the helper behind the HTTP endpoints
BackendDoubleCheck ==
    /\ double_check.pc = "llm"
    /\ LET r == backend_semantic_double_check(double_check.raw)
       IN  double_check' = [double_check EXCEPT !.pc = "backend", !.passed = r.passed,
                                                !.hallucinated_steps = r.hallucinated_steps]
    /\ UNCHANGED <<runnerVars, pat_rotator, detection, fork, cli, pool, preflight, llm_stage, batch, resume_row, classifier>>

VerifierNext ==
    \/ PipelineDoubleCheck
    \/ BackendDoubleCheck

VerifierSpec == VerifierInit /\ [][VerifierNext]_vars

\* C22: when the verifier's only hallucinated step is actions/checkout@v4 and
\* nothing is missing, the batch orchestrator records double_check.passed = true.
C22_AsStated ==
    (/\ double_check.pc = "pipeline"
     /\ double_check.raw.hallucinated_steps = <<CheckoutV4>>
     /\ double_check.raw.missing_features = << >>)
        => double_check.passed

\* --------------------------------------------------- the detector alone
\* One call of detect_ci against any answers of the host: every pattern of
\* every attempt is found, absent, or fails with a network error.
DetectInit ==
    /\ config = DefaultConfig
    /\ RunnerInit
    /\ pat_rotator = PATRotator(MaxPats)
    /\ double_check = DoubleCheck(CleanVerdict)
    /\ detection \in {Detection(probes) :
                        probes \in [1..max_retries -> [1..Len(Patterns) -> ProbeOutcomes]]}
    /\ fork = Fork(FALSE, NoRefs, "travis")
    /\ cli = Cli(DefaultArgs)
    /\ pool = Pool(0, FALSE)
    /\ preflight = Preflight
    /\ llm_stage = LlmStage("migrate", NoReplies)
    /\ batch = Batch(<<RepoInput("alice", "app")>>)
    /\ resume_row = ResumeRow(RepoInput("alice", "app"), "travis", "success", "success")
    /\ classifier = Classifier(NoLog)

\* runner.py 756 / 1007: detection_result = detect_ci(...)
DetectCi ==
    /\ detection.pc = "call"
    /\ detection' = [detection EXCEPT !.pc = "returned",
                                      !.result = detect_ci(detection.probes, max_retries)]
    /\ UNCHANGED <<runnerVars, pat_rotator, double_check, fork, cli, pool, preflight, llm_stage, batch, resume_row, classifier>>

DetectNext == DetectCi

DetectSpec == DetectInit /\ [][DetectNext]_vars

\* an attempt whose probes all failed with network errors
Defeated(a) == \A p \in 1..Len(Patterns) : detection.probes[a][p] = "network_error"

\* C23: detect_ci returns FAILED exactly when every one of the retries attempts
\* was defeated by network errors: such a repository is never reported as
\* success with an empty set, and a repository without a CI file is reported
\* as success with an empty set, never as FAILED.
C23_AsStated ==
    detection.pc = "returned" =>
        (detection.result.status = "failed" <=> \A a \in 1..max_retries : Defeated(a))

\* ------------------------------------------- the fork-and-push writer alone
\* Up to MaxRuns runs of steps 1 to 4 of create_pull_request, one after the
\* other, against one fork. The host answers every request according to the
\* fork's refs; the fork and a branch of an earlier session may already exist.
WriterInit ==
    /\ config = DefaultConfig
    /\ RunnerInit
    /\ pat_rotator = PATRotator(MaxPats)
    /\ double_check = DoubleCheck(CleanVerdict)
    /\ detection = Detection(NoCI)
    /\ \E forked \in BOOLEAN, ci \in SourceCis :
        \E refs \in [BranchNames -> {"absent", "stale"}] :
            /\ ~forked => refs = NoRefs
            /\ fork = Fork(forked, refs, ci)
    /\ cli = Cli(DefaultArgs)
    /\ pool = Pool(0, FALSE)
    /\ preflight = Preflight
    /\ llm_stage = LlmStage("migrate", NoReplies)
    /\ batch = Batch(<<RepoInput("alice", "app")>>)
    /\ resume_row = ResumeRow(RepoInput("alice", "app"), "travis", "success", "success")
    /\ classifier = Classifier(NoLog)

\* step 1: _ensure_fork
EnsureFork ==
    /\ fork.pc = "fork"
    /\ fork' = [fork EXCEPT !.pc = "sha", !.forked = TRUE]
    /\ UNCHANGED <<runnerVars, pat_rotator, double_check, detection, cli, pool, preflight, llm_stage, batch, resume_row, classifier>>

\* step 2: _get_branch_sha, and the branch name of step 3
GetBranchSha ==
    /\ fork.pc = "sha"
    /\ fork' = [fork EXCEPT !.pc = "branch",
                            !.runs[fork.run].branch_name = branch_name(fork.runs[fork.run].source_ci)]
    /\ UNCHANGED <<runnerVars, pat_rotator, double_check, detection, cli, pool, preflight, llm_stage, batch, resume_row, classifier>>

\* step 3: _create_branch from the default branch's sha
CreateBranch ==
    /\ fork.pc = "branch"
    /\ LET r == create_branch(fork.refs, fork.runs[fork.run].branch_name, "base")
       IN  fork' = [fork EXCEPT !.pc = IF r.ok THEN "file" ELSE "done",
                                !.refs = r.refs,
                                !.runs[fork.run].deleted = r.deleted,
                                !.runs[fork.run].status = IF r.ok THEN @ ELSE "failed"]
    /\ UNCHANGED <<runnerVars, pat_rotator, double_check, detection, cli, pool, preflight, llm_stage, batch, resume_row, classifier>>

\* step 4: _create_or_update_file
CreateOrUpdateFile ==
    /\ fork.pc = "file"
    /\ LET r == create_or_update_file(fork.refs, fork.runs[fork.run].branch_name, fork.run)
       IN  fork' = [fork EXCEPT !.pc = "done", !.refs = r.refs,
                                !.runs[fork.run].status = IF r.ok THEN "success" ELSE "failed"]
    /\ UNCHANGED <<runnerVars, pat_rotator, double_check, detection, cli, pool, preflight, llm_stage, batch, resume_row, classifier>>

\* the next run starts when the one before it has returned
NextRun ==
    /\ fork.pc = "done"
    /\ fork.run < MaxRuns
    /\ \E ci \in SourceCis :
        fork' = [fork EXCEPT !.pc = "fork", !.run = fork.run + 1,
                             !.runs[fork.run + 1].source_ci = ci]
    /\ UNCHANGED <<runnerVars, pat_rotator, double_check, detection, cli, pool, preflight, llm_stage, batch, resume_row, classifier>>

WriterNext ==
    \/ EnsureFork
    \/ GetBranchSha
    \/ CreateBranch
    \/ CreateOrUpdateFile
    \/ NextRun

WriterSpec == WriterInit /\ [][WriterNext]_vars

\* the run that has just returned follows a run for the same ci kind
SecondOfTwo ==
    /\ fork.pc = "done"
    /\ fork.run >= 2
    /\ fork.runs[fork.run].source_ci = fork.runs[fork.run - 1].source_ci

\* C24: two back-to-back runs for the same (repo, ci_kind) target the same
\* branch name, and after the second the branch exists with the later run's
\* commit at its tip: the second run does not fail because the branch exists
\* and does not leave the branch at the earlier run's commit.
C24_LaterCommitAtTip ==
    SecondOfTwo =>
        /\ fork.runs[fork.run].branch_name = fork.runs[fork.run - 1].branch_name
        /\ fork.runs[fork.run].status = "success"
        /\ fork.refs[fork.runs[fork.run].branch_name] = commit_of(fork.run)

\* the second run found the first run's branch, deleted and recreated it
C24_Witness ==
    /\ SecondOfTwo
    /\ fork.runs[fork.run - 1].status = "success"
    /\ fork.runs[fork.run].deleted
    /\ fork.refs[fork.runs[fork.run].branch_name] = commit_of(fork.run)

\* C25: a PR is published as runtime-verified only if the last run observed
\* for its row concluded success; a row finalised through the secret branch is
\* published with the secret caveat; a row finalised after exhausted repairs,
\* a timeout or an unknown error is published, if at all, as unverified.
C25_LabelMatchesVerdict ==
    \A id \in Ids :
        /\ res[id].pr_label = "verified" => res[id].error_type = "success"
        /\ res[id].pr_label = "secret" => res[id].error_type = "secret_error"
        /\ res[id].pr_label = "unverified" =>
               res[id].error_type \in {"fixable_error", "timeout_error", "unknown_error"}
        /\ (res[id].status \in Terminal /\ res[id].pr \in {"success", "failed"}
            /\ config.cloud_gha_verify) =>
               res[id].pr_label = (IF res[id].error_type = "success" THEN "verified"
                                   ELSE IF res[id].error_type = "secret_error" THEN "secret"
                                   ELSE "unverified")

\* one row published with the secret caveat, another as unverified after its
\* repairs were used up
C25_Witness ==
    \E id1, id2 \in Ids :
        /\ res[id1].pr_label = "secret"
        /\ res[id1].error_type = "secret_error"
        /\ res[id2].pr_label = "unverified"
        /\ res[id2].error_type = "fixable_error"
        /\ res[id2].fix_attempts = cloud_gha_retries

\* ------------------------------------------------------- the process alone
\* main() of run.py for any arguments, with SIGINT arriving at any moment of
\* the run. Without --cloud-gha-verify the interpreter's handler raises
\* KeyboardInterrupt in main(); with it, _run_with_gha_verify installs
\* handle_shutdown for the length of the run.
CliInit ==
    /\ config = DefaultConfig
    /\ RunnerInit
    /\ pat_rotator = PATRotator(MaxPats)
    /\ double_check = DoubleCheck(CleanVerdict)
    /\ detection = Detection(NoCI)
    /\ fork = Fork(FALSE, NoRefs, "travis")
    /\ cli \in {Cli(args) : args \in Args}
    /\ pool = Pool(0, FALSE)
    /\ preflight = Preflight
    /\ llm_stage = LlmStage("migrate", NoReplies)
    /\ batch = Batch(<<RepoInput("alice", "app")>>)
    /\ resume_row = ResumeRow(RepoInput("alice", "app"), "travis", "success", "success")
    /\ classifier = Classifier(NoLog)

cliFrame == <<runnerVars, pat_rotator, double_check, detection, fork, pool, preflight, llm_stage, batch, resume_row, classifier>>

\* main() up to runner.run(repos): the three validations, load_repos
Main ==
    /\ cli.pc = "main"
    /\ LET a == cli.args
       IN  cli' = IF ~a.input_exists THEN sys_exit(cli, 1)
                  ELSE IF ~a.api_key /\ a.provider # "ollama" THEN sys_exit(cli, 1)
                  ELSE IF a.github_pats = 0 THEN sys_exit(cli, 1)
                  ELSE IF a.repos = 0 THEN sys_exit(cli, 0)
                  ELSE [cli EXCEPT !.pc = "run",
                                   !.sigint_handler = IF a.cloud_gha_verify
                                                      THEN "handle_shutdown" ELSE @]
    /\ UNCHANGED cliFrame

\* SIGINT while runner.run is on the stack
Sigint ==
    /\ cli.pc = "run"
    /\ cli' = IF cli.sigint_handler = "handle_shutdown"
              THEN \* handle_shutdown: flag and countdown, no exception
                   [cli EXCEPT !.interrupted = TRUE, !.stop_requested = TRUE]
              ELSE \* KeyboardInterrupt reaches main(): runner.stop(); sys.exit(130)
                   sys_exit([cli EXCEPT !.interrupted = TRUE, !.stop_requested = TRUE], 130)
    /\ UNCHANGED cliFrame

\* runner.run returns: the summary is printed and main() falls off its end
RunReturns ==
    /\ cli.pc = "run"
    /\ cli' = sys_exit([cli EXCEPT !.sigint_handler = "default_int_handler"], 0)
    /\ UNCHANGED cliFrame

\* runner.run raises: except Exception in main()
RunRaises ==
    /\ cli.pc = "run"
    /\ cli' = sys_exit([cli EXCEPT !.sigint_handler = "default_int_handler"], 1)
    /\ UNCHANGED cliFrame

CliNext ==
    \/ Main
    \/ Sigint
    \/ RunReturns
    \/ RunRaises

CliSpec == CliInit /\ [][CliNext]_vars

\* C26: a run ended by SIGINT exits with code 130, with and without
\* --cloud-gha-verify; a run that completes without interrupt exits 0; a fatal
\* configuration error (no input file, no credentials) exits 1.
C26_AsStated ==
    cli.pc = "exited" =>
        /\ cli.interrupted => cli.exit_code = 130
        /\ (~cli.args.input_exists \/ cli.args.github_pats = 0) => cli.exit_code = 1
        /\ cli.exit_code = 0 => ~cli.interrupted

\* the RuntimeTasks staged, queued or held by a secondary worker, counted
Outstanding ==
    Len(staging) + Cardinality({i \in DOMAIN queue : queue[i] # StopSignal})
        + Cardinality(busy)

C27_State ==
    /\ pending >= 0
    /\ pending = Outstanding
    /\ pending = 0 <=> Tasks \subseteq {StopSignal}

\* a repair that re-enqueues its task leaves the counter where it was
C27_Step ==
    \A b \in busy :
        (b.pc = "fix" /\ b \notin busy' /\ Len(queue') > Len(queue)) => pending' = pending

\* C27: the pending counter is never negative and equals the number of
\* RuntimeTasks staged, queued or being processed; a successful repair that
\* re-enqueues its task leaves the counter unchanged; the counter is 0 only
\* when no task is staged, queued or in flight.
C27_PendingCountsTasks == []C27_State /\ [][C27_Step]_vars

\* one task staged by the main tier, one re-enqueued after a repair, one held
\* by a worker would need three rows; with two: a repaired task is back in the
\* queue while another is held by a worker
C27_Witness ==
    /\ pending = 2
    /\ \E i \in DOMAIN queue : queue[i] # StopSignal /\ queue[i].fix_attempt > 0
    /\ busy # {}

\* the row of a task is in the output file: appended by this run, or found
\* there by the resumed run
Appended(id) == hist[id].writes > 0 \/ res[id].resumed

\* the tasks the feeder has passed on: queued or held by a secondary worker
Visible == (Range(queue) \cup {b.task : b \in busy}) \ {StopSignal}

\* the main-tier worker of repository r is still between the staging of the
\* task of id and the return of _process_repo_with_gha's loop body for it
MainTierHolds(id) == repoState[id[1]] = "staged" /\ nextc[id[1]] = id[2]

\* C28, as stated: a RuntimeTask is visible to the feeder's queue and to the
\* secondary workers only after its row has been appended and its row_index
\* assigned; no secondary worker holds a task whose row_index is unset; no
\* RepoResult is in the hands of a main-tier worker and of a secondary worker
\* at the same time.
C28_AsStated ==
    /\ \A t \in Visible : Appended(t.id) /\ t.row_index # NoRowIndex
    /\ \A b \in busy : ~MainTierHolds(b.task.id)

\* how often the first task of a row occurs among the staged, queued and held
Occurrences(id) ==
    Cardinality({i \in DOMAIN staging : staging[i].id = id /\ staging[i].fix_attempt = 0})
    + Cardinality({i \in DOMAIN queue : queue[i].id = id /\ queue[i].fix_attempt = 0})
    + Cardinality({b \in busy : b.task.id = id /\ b.task.fix_attempt = 0})

C29_State ==
    /\ \A id \in Ids : Occurrences(id) <= 1
    /\ feeder \in {"cancelled", "flushed"} => staging = << >>
    /\ \A id \in Ids :
         (res[id].status = "gha_pending" /\ ~res[id].resumed) => \E t \in Tasks : t.id = id

\* the staged tasks leave the staging list all together, and are appended to
\* the queue once each, in their order
C29_Step ==
    Len(staging') < Len(staging) =>
        /\ staging' = << >>
        /\ Len(queue') >= Len(queue) + Len(staging)
        /\ SubSeq(queue', 1, Len(queue) + Len(staging)) = queue \o staging

\* C29: every RuntimeTask a main-tier worker appends to the staging list is put
\* on the async queue exactly once, neither lost nor duplicated, whatever the
\* interleaving of appends and feeder passes, also for the tasks still staged
\* when the feeder is cancelled.
C29_StagedQueuedOnce == []C29_State /\ [][C29_Step]_vars

\* the feeder was cancelled with a task still staged, and its handler queued it
C29_Witness ==
    /\ feeder = "flushed"
    /\ staging = << >>
    /\ \E i \in DOMAIN queue : queue[i] # StopSignal /\ queue[i].fix_attempt = 0

\* --------------------------------------------------- the worker pools alone
\* _run_parallel and _run_with_gha_verify reduced to their scheduling: up to
\* MaxPoolRepos repositories, more than the semaphore admits, each of which
\* may hand one task to the secondary tier; a task may be re-enqueued by its
\* worker.
PoolInit ==
    /\ config = DefaultConfig
    /\ RunnerInit
    /\ pat_rotator = PATRotator(MaxPats)
    /\ double_check = DoubleCheck(CleanVerdict)
    /\ detection = Detection(NoCI)
    /\ fork = Fork(FALSE, NoRefs, "travis")
    /\ cli = Cli(DefaultArgs)
    /\ pool \in {Pool(n, gha) : n \in 0..MaxPoolRepos, gha \in BOOLEAN}
    /\ preflight = Preflight
    /\ llm_stage = LlmStage("migrate", NoReplies)
    /\ batch = Batch(<<RepoInput("alice", "app")>>)
    /\ resume_row = ResumeRow(RepoInput("alice", "app"), "travis", "success", "success")
    /\ classifier = Classifier(NoLog)

poolFrame == <<runnerVars, pat_rotator, double_check, detection, fork, cli, preflight, llm_stage, batch, resume_row, classifier>>

\* async with semaphore: ... await loop.run_in_executor(None, self._process_repo, repo)
SemaphoreAcquire ==
    /\ \E r \in DOMAIN pool.repos :
         /\ pool.repos[r] = "created"
         /\ ~locked(pool.semaphore)
         /\ pool' = [pool EXCEPT !.semaphore = @ - 1, !.repos[r] = "processing"]
    /\ UNCHANGED poolFrame

\* the executor's call has returned, with or without a task staged for the
\* secondary tier; the semaphore is released
SemaphoreRelease ==
    /\ \E r \in DOMAIN pool.repos, staged \in 0..1 :
         /\ pool.repos[r] = "processing"
         /\ staged = 1 => pool.cloud_gha_verify
         /\ pool' = [pool EXCEPT !.semaphore = @ + 1, !.repos[r] = "returned",
                                 !.queue = @ + staged]
    /\ UNCHANGED poolFrame

\* _gha_worker: task = await queue.get(); await self._process_gha_task(task)
PoolWorkerGet ==
    /\ \E w \in DOMAIN pool.workers :
         /\ pool.workers[w] = "idle"
         /\ pool.queue > 0
         /\ pool' = [pool EXCEPT !.workers[w] = "processing", !.queue = @ - 1]
    /\ UNCHANGED poolFrame

\* _process_gha_task has returned; a repair may have put the task back
PoolWorkerDone ==
    /\ \E w \in DOMAIN pool.workers, requeued \in 0..1 :
         /\ pool.workers[w] = "processing"
         /\ pool' = [pool EXCEPT !.workers[w] = "idle", !.queue = @ + requeued]
    /\ UNCHANGED poolFrame

PoolNext ==
    \/ SemaphoreAcquire
    \/ SemaphoreRelease
    \/ PoolWorkerGet
    \/ PoolWorkerDone

PoolSpec == PoolInit /\ [][PoolNext]_vars

InMainTier == {r \in DOMAIN pool.repos : pool.repos[r] = "processing"}
InSecondaryTier == {w \in DOMAIN pool.workers : pool.workers[w] = "processing"}

\* C30: at every moment at most max_concurrent repositories are being processed
\* by the main tier and at most max_concurrent RuntimeTasks by the secondary
\* tier.
C30_Bounded ==
    /\ Cardinality(InMainTier) <= max_concurrent
    /\ Cardinality(InSecondaryTier) <= max_concurrent

\* both tiers are full while a repository and a task are waiting
C30_Witness ==
    /\ Cardinality(InMainTier) = max_concurrent
    /\ Cardinality(InSecondaryTier) = max_concurrent
    /\ \E r \in DOMAIN pool.repos : pool.repos[r] = "created"
    /\ pool.queue > 0

\* --------------------------------------- the token pool under worker threads
\* The executor threads of the main tier call get_pat and
\* check_and_rotate_if_needed on the one PATRotator. A preflight is three
\* locked calls with the rate-limit request between the first two; the threads
\* interleave between the calls.
PreflightInit ==
    /\ config = DefaultConfig
    /\ RunnerInit
    /\ pat_rotator \in {PATRotator(n) : n \in 1..MaxPats}
    /\ double_check = DoubleCheck(CleanVerdict)
    /\ detection = Detection(NoCI)
    /\ fork = Fork(FALSE, NoRefs, "travis")
    /\ cli = Cli(DefaultArgs)
    /\ pool = Pool(0, FALSE)
    /\ preflight = Preflight
    /\ llm_stage = LlmStage("migrate", NoReplies)
    /\ batch = Batch(<<RepoInput("alice", "app")>>)
    /\ resume_row = ResumeRow(RepoInput("alice", "app"), "travis", "success", "success")
    /\ classifier = Classifier(NoLog)

preflightFrame == <<runnerVars, double_check, detection, fork, cli, pool, llm_stage, batch, resume_row, classifier>>

\* pat = self.get_pat()
PreflightGetPat(w) ==
    /\ preflight[w].pc = "idle"
    /\ pat_rotator' = get_pat(pat_rotator)
    /\ preflight' = [preflight EXCEPT ![w] = [pc |-> "check", pat |-> pat_rotator'.got,
                                               marked |-> NoPat]]
    /\ UNCHANGED preflightFrame

\* remaining, reset_time = check_rate_limit(pat); if remaining < 100
PreflightCheckRateLimit(w) ==
    /\ preflight[w].pc = "check"
    /\ \E low \in BOOLEAN :
          preflight' = [preflight EXCEPT ![w].pc = IF low THEN "mark" ELSE "idle"]
    /\ UNCHANGED <<pat_rotator, preflightFrame>>

\* self.mark_rate_limited()
PreflightMark(w) ==
    /\ preflight[w].pc = "mark"
    /\ pat_rotator' = mark_rate_limited(pat_rotator)
    /\ preflight' = [preflight EXCEPT ![w].pc = "get",
                                      ![w].marked = pat_rotator.current_index]
    /\ UNCHANGED preflightFrame

\* new_pat = self.get_pat(); return True
PreflightReturn(w) ==
    /\ preflight[w].pc = "get"
    /\ pat_rotator' = get_pat(pat_rotator)
    /\ preflight' = [preflight EXCEPT ![w].pc = "idle"]
    /\ UNCHANGED preflightFrame

PreflightNext ==
    \/ GetPat
    \/ MarkRateLimited
    \/ \E w \in 1..NumPreflight : PreflightGetPat(w)
    \/ \E w \in 1..NumPreflight : PreflightCheckRateLimit(w)
    \/ \E w \in 1..NumPreflight : PreflightMark(w)
    \/ \E w \in 1..NumPreflight : PreflightReturn(w)

PreflightSpec == PreflightInit /\ [][PreflightNext]_vars

\* C31: whatever the threads call on a non-empty pool, the throttled set holds
\* only indexes of credentials, so it is never larger than the pool, the
\* cursor is the index of a credential, and clearing the throttled set when
\* it is empty leaves it as it was.
C31_Bounded ==
    /\ pat_rotator.rate_limited \subseteq 0..(pat_rotator.n - 1)
    /\ Cardinality(pat_rotator.rate_limited) <= pat_rotator.n
    /\ pat_rotator.current_index \in 0..(pat_rotator.n - 1)
    /\ pat_rotator.rate_limited = {} =>
          clear(pat_rotator.rate_limited) = pat_rotator.rate_limited

\* every credential is throttled while one thread is about to mark and
\* another is about to get
C31_Witness ==
    /\ pat_rotator.n >= 2
    /\ Cardinality(pat_rotator.rate_limited) = pat_rotator.n
    /\ \E w, v \in 1..NumPreflight : preflight[w].pc = "mark" /\ preflight[v].pc = "get"

\* C34: the credential a preflight marks as throttled is the credential whose
\* rate limit that same call read, whatever the other threads do between the
\* call's get_pat and its mark_rate_limited.
C34_AsStated ==
    \A w \in 1..NumPreflight :
        preflight[w].marked # NoPat => preflight[w].marked = preflight[w].pat

\* C32: when a repair fails (fix_and_push_workflow returns no YAML, or raises),
\* the row's attempt counter goes up by one, and the row is finalised by the
\* strictness policy only when its attempts have reached cloud_gha_retries.
FailedRepair(id) ==
    /\ hist'[id].fixCalls = hist[id].fixCalls + 1
    /\ hist'[id].commits = hist[id].commits

C32_AsStated ==
    [][\A id \in Ids : FailedRepair(id) =>
          /\ res'[id].fix_attempts = res[id].fix_attempts + 1
          /\ (res'[id].status # "gha_pending" =>
                 res'[id].fix_attempts >= cloud_gha_retries)]_vars

\* ------------------------------------------------------ an LLM stage alone
\* One call of the translator stage or of the semantic-verifier stage with
\* retries = max_retries, against every sequence of provider replies.
StageInit ==
    /\ config = DefaultConfig
    /\ RunnerInit
    /\ pat_rotator = PATRotator(MaxPats)
    /\ double_check = DoubleCheck(CleanVerdict)
    /\ detection = Detection(NoCI)
    /\ fork = Fork(FALSE, NoRefs, "travis")
    /\ cli = Cli(DefaultArgs)
    /\ pool = Pool(0, FALSE)
    /\ preflight = Preflight
    /\ llm_stage \in {LlmStage(stage, replies) :
                        stage \in {"migrate", "double_check"},
                        replies \in [1..max_retries -> ProviderReplies]}
    /\ batch = Batch(<<RepoInput("alice", "app")>>)
    /\ resume_row = ResumeRow(RepoInput("alice", "app"), "travis", "success", "success")
    /\ classifier = Classifier(NoLog)

stageFrame == <<runnerVars, pat_rotator, double_check, detection, fork, cli, pool, preflight, batch, resume_row, classifier>>

MigrateCi ==
    /\ llm_stage.stage = "migrate"
    /\ llm_stage.status = "pending"
    /\ llm_stage.attempts < llm_stage.retries
    /\ llm_stage' = migrate_ci(llm_stage)
    /\ UNCHANGED stageFrame

SemanticDoubleCheck ==
    /\ llm_stage.stage = "double_check"
    /\ llm_stage.status = "pending"
    /\ llm_stage.attempts < llm_stage.retries
    /\ llm_stage' = stage_double_check(llm_stage)
    /\ UNCHANGED stageFrame

StageNext ==
    \/ MigrateCi
    \/ SemanticDoubleCheck

StageSpec == StageInit /\ [][StageNext]_vars

\* C33: a provider or network error makes the stage call the provider again
\* while invocations remain; the stage ends failed, with the error recorded,
\* only when its last permitted invocation has failed too, and it ends
\* successful at the first invocation that succeeds.
Returned == llm_stage.status \in {"success", "failed"}

C33_AsStated ==
    (Returned /\ llm_stage.replies[llm_stage.attempts] = "error") =>
        /\ llm_stage.attempts = max_retries
        /\ llm_stage.status = "failed"
        /\ llm_stage.error

\* ------------------------------------------------- the write targets alone
\* One run over an input list of up to MaxInput entries as load_repos returns
\* them (no entry is dropped or merged); each entry has one row per CI
\* system found in it, and each row creates its branch on the fork.
TargetsInit ==
    /\ config = DefaultConfig
    /\ RunnerInit
    /\ pat_rotator = PATRotator(MaxPats)
    /\ double_check = DoubleCheck(CleanVerdict)
    /\ detection = Detection(NoCI)
    /\ fork = Fork(FALSE, NoRefs, "travis")
    /\ cli = Cli(DefaultArgs)
    /\ pool = Pool(0, FALSE)
    /\ preflight = Preflight
    /\ llm_stage = LlmStage("migrate", NoReplies)
    /\ resume_row = ResumeRow(RepoInput("alice", "app"), "travis", "success", "success")
    /\ classifier = Classifier(NoLog)
    /\ \E k \in 1..MaxInput :
          batch \in {Batch(repos) :
                       repos \in [1..k -> {RepoInput(o, nm) : o \in Owners, nm \in Names}]}

batchFrame == <<runnerVars, pat_rotator, double_check, detection, fork, cli, pool,
                preflight, llm_stage, resume_row, classifier>>

\* create_pull_request from _ensure_fork to _create_or_update_file, for the
\* row of configuration source_ci of the i-th entry of the input list
CreatePullRequest(i, source_ci) ==
    /\ i \in DOMAIN batch.repos
    /\ ~\E row \in batch.rows : row.index = i /\ row.source_ci = source_ci
    /\ batch' = [batch EXCEPT !.rows = @ \cup
                    {[index |-> i, source_ci |-> source_ci,
                      target |-> write_target(batch.repos[i], source_ci)]}]
    /\ UNCHANGED batchFrame

TargetsNext == \E i \in 1..MaxInput, source_ci \in SourceCis : CreatePullRequest(i, source_ci)

TargetsSpec == TargetsInit /\ [][TargetsNext]_vars

\* C35: two different rows of one run never write to the same fork owner,
\* fork repository and branch, also when two input repositories share a name
\* under different owners or the list names one repository twice.
C35_AsStated ==
    \A r1, r2 \in batch.rows : r1 # r2 => r1.target # r2.target

\* ------------------------------------------- an interrupt with a long grace
\* One run with runtime verification that receives a signal and whose grace
\* period outlasts the run: the countdown sets the shutdown event only through
\* its test of the pending counter, never by running out.
\* shutdown_countdown: if self._gha_pending_count == 0: break
CountdownBreak ==
    /\ pending = 0
    /\ GraceExpired

GraceNext ==
    \/ Run
    \/ \E r \in Repos : Detect(r)
    \/ \E r \in Repos : SkipStopped(r)
    \/ \E r \in Repos : ProcessCIGha(r)
    \/ \E r \in Repos : WriteStaged(r)
    \/ FeederDrain
    \/ WorkerGet
    \/ WorkerBreak
    \/ WorkerVerify
    \/ WorkerFix
    \/ GatherDone
    \/ DrainDone
    \/ JoinDone
    \/ Signal
    \/ CountdownBreak

GraceSpec == ShutdownInit /\ [][GraceNext]_vars

\* C36: while the grace period has not expired, a task that a main-tier
\* worker stages after the interrupt is still taken by a secondary worker,
\* also when nothing was pending at the moment of the interrupt: when the
\* interrupted run returns, no row is left waiting for its verification.
C36_AsStated ==
    Interrupted => \A id \in Ids : res[id].status # "gha_pending"

\* ----------------------------------------------- a row across two runs, alone
\* One configuration that reaches the fork in a first run: its row is written
\* as gha_pending, its task may go through repairs, the process ends with the
\* row still gha_pending, and a run with --resume rebuilds the task from the
\* row, finishes it and updates the row. update_result and load_gha_pending
\* are not in the reporter's source; they rewrite the row from to_csv_row and
\* return the row's columns with its index.
ResumeRowInit ==
    /\ config = DefaultConfig
    /\ RunnerInit
    /\ pat_rotator = PATRotator(MaxPats)
    /\ double_check = DoubleCheck(CleanVerdict)
    /\ detection = Detection(NoCI)
    /\ fork = Fork(FALSE, NoRefs, "travis")
    /\ cli = Cli(DefaultArgs)
    /\ pool = Pool(0, FALSE)
    /\ preflight = Preflight
    /\ llm_stage = LlmStage("migrate", NoReplies)
    /\ batch = Batch(<<RepoInput("alice", "app")>>)
    /\ resume_row \in {ResumeRow(RepoInput(o, nm), ci, v, dc) :
                         o \in Owners, nm \in Names, ci \in SourceCis,
                         v \in {"success", "failed"},
                         dc \in {"success", "failed", "skipped"}}
    /\ classifier = Classifier(NoLog)

resumeRowFrame == <<runnerVars, pat_rotator, double_check, detection, fork, cli, pool,
                    preflight, llm_stage, batch, classifier>>

\* runner.py 800-806: the row of the staged result is appended
RowWriteResult ==
    /\ resume_row.pc = "pushed"
    /\ resume_row' = [resume_row EXCEPT !.pc = "queued",
                                        !.task = first_task(resume_row.result, 0),
                                        !.row = writerow(csv_row(resume_row.result))]
    /\ UNCHANGED resumeRowFrame

\* _attempt_gha_fix: a repair was pushed, the task is re-queued with
\* fix_attempt + 1 and the row is updated
RowAttemptFix ==
    /\ resume_row.pc = "queued"
    /\ resume_row.task.fix_attempt < cloud_gha_retries
    /\ LET result == [resume_row.result EXCEPT
                         !.gha_fix_attempts = resume_row.task.fix_attempt + 1]
       IN  resume_row' = [resume_row EXCEPT
                            !.result = result,
                            !.task = first_task(result, resume_row.task.fix_attempt + 1),
                            !.row = update_result_row(result)]
    /\ UNCHANGED resumeRowFrame

\* the process ends with the task not completed
RowCrash ==
    /\ resume_row.pc = "queued"
    /\ resume_row' = [resume_row EXCEPT !.pc = "dead", !.written = resume_row.row,
                                        !.replaced = resume_row.task,
                                        !.result = RepoResult(resume_row.result.input),
                                        !.task = NoTask]
    /\ UNCHANGED resumeRowFrame

\* run() with --resume: load_gha_pending, then _resume_gha_task
RowResume ==
    /\ resume_row.pc = "dead"
    /\ resume_row.row["overall_status"] = "gha_pending"
    /\ LET task_data == load_gha_pending_row(resume_row.row, 1)
       IN  resume_row' = [resume_row EXCEPT !.pc = "resumed",
                                            !.result = resumed_result(task_data),
                                            !.task = resumed_task(task_data)]
    /\ UNCHANGED resumeRowFrame

\* a completion handler: pull_request and overall_status are set, then
\* update_result(task.row_index, result)
RowComplete ==
    /\ resume_row.pc = "resumed"
    /\ \E pr_status \in {"success", "failed", "skipped"} :
         LET result == [resume_row.result EXCEPT
                           !.gha_fix_attempts = resume_row.task.fix_attempt,
                           !.pr_status = pr_status,
                           !.overall_status = IF pr_status = "success" THEN "success"
                                              ELSE IF pr_status = "failed" THEN "partial"
                                              ELSE "failed"]
         IN  resume_row' = [resume_row EXCEPT !.pc = "final", !.result = result,
                                              !.row = update_result_row(result)]
    /\ UNCHANGED resumeRowFrame

ResumeRowNext ==
    \/ RowWriteResult
    \/ RowAttemptFix
    \/ RowCrash
    \/ RowResume
    \/ RowComplete

ResumeRowSpec == ResumeRowInit /\ [][ResumeRowNext]_vars

\* C37: finalising a row that --resume re-queued leaves the row's detection,
\* translation, lint and semantic-verification fields and its source and
\* translated YAML in the file as the earlier run recorded them.
FrameColumns ==
    {"detected_ci", "detection_status", "migration_status", "validation_status",
     "double_check_status", "source_yaml", "migrated_yaml"}

C37_AsStated ==
    resume_row.pc = "final" =>
        \A k \in FrameColumns \cap DOMAIN resume_row.written :
            resume_row.row[k] = resume_row.written[k]

\* C38: every row that is in the file as gha_pending holds a non-empty fork
\* owner, branch name and translated YAML and the fix-attempt count, and the
\* task a resumed run rebuilds from it has the fork, the branch and the
\* fix_attempt of the task it replaces.
C38_AsStated ==
    /\ (DOMAIN resume_row.row # {} /\ resume_row.row["overall_status"] = "gha_pending") =>
          /\ "gha_fork_owner" \in DOMAIN resume_row.row
          /\ resume_row.row["gha_fork_owner"] # ""
          /\ "gha_branch_name" \in DOMAIN resume_row.row
          /\ resume_row.row["gha_branch_name"] # << >>
          /\ "migrated_yaml" \in DOMAIN resume_row.row
          /\ resume_row.row["migrated_yaml"] # ""
          /\ "gha_fix_attempts" \in DOMAIN resume_row.row
    /\ resume_row.pc = "resumed" =>
          /\ resume_row.task.fork_owner = resume_row.replaced.fork_owner
          /\ resume_row.task.branch_name = resume_row.replaced.branch_name
          /\ resume_row.task.fix_attempt = resume_row.replaced.fix_attempt

\* C39: a result whose overall_status is success has a pull-request stage
\* with status success, on the path without runtime verification and after
\* every completing branch of the runtime-verification queue; the row of a
\* result takes both columns from that one object.
C39_SuccessHasPr ==
    \A id \in Ids : res[id].status = "success" => res[id].pr = "success"

\* a handler of the queue tried to open the PR and failed, and the row is
\* not reported as success
C39_Witness ==
    \E id \in Ids :
        /\ res[id].pr_label \in {"verified", "secret"}
        /\ res[id].pr = "failed"
        /\ res[id].status = "partial"
        /\ hist[id].prCalls > 0

\* ------------------------------------------------------- classified logs
ClassifierInit ==
    /\ config = DefaultConfig
    /\ RunnerInit
    /\ pat_rotator = PATRotator(MaxPats)
    /\ double_check = DoubleCheck(CleanVerdict)
    /\ detection = Detection(NoCI)
    /\ fork = Fork(FALSE, NoRefs, "travis")
    /\ cli = Cli(DefaultArgs)
    /\ pool = Pool(0, FALSE)
    /\ preflight = Preflight
    /\ llm_stage = LlmStage("migrate", NoReplies)
    /\ batch = Batch(<<RepoInput("alice", "app")>>)
    /\ resume_row = ResumeRow(RepoInput("alice", "app"), "travis", "success", "success")
    /\ classifier \in {Classifier(log_content) : log_content \in Logs}

classifierFrame == <<runnerVars, pat_rotator, double_check, detection, fork, cli, pool,
                     preflight, llm_stage, batch, resume_row>>

\* gha_verify.py 430-441: the logs of the failed jobs are classified when
\* there are any, and the run is of unknown error when there are none
VerifyGhaRunFailed ==
    /\ classifier.pc = "fetched"
    /\ classifier' = [classifier EXCEPT
           !.pc = "verified",
           !.error_type = IF ~is_empty(classifier.log_content)
                          THEN classify_error(classifier.log_content)
                          ELSE "unknown_error"]
    /\ UNCHANGED classifierFrame

\* runner.py 449-480: the branch taken for the first verification of a push
ProcessGhaTask ==
    /\ classifier.pc = "verified"
    /\ classifier' = [classifier EXCEPT !.pc = "dispatched",
                                        !.branch = dispatch(classifier.error_type, 0)]
    /\ UNCHANGED classifierFrame

ClassifierNext == VerifyGhaRunFailed \/ ProcessGhaTask

ClassifierSpec == ClassifierInit /\ [][ClassifierNext]_vars

\* the log matches one of the patterns of a list, case ignored
Matches(patterns, log_content) ==
    \E p \in 1..Len(patterns) : re_search(patterns[p], log_content)

\* C40: classify_error returns exactly one of secret, fixable and unknown for
\* every log, never none or timeout; a log that matches both a secret pattern
\* and a fixable pattern is classified secret and no repair is attempted for
\* it; an empty log is classified unknown.
C40_AsStated ==
    classifier.pc = "dispatched" =>
        /\ classifier.error_type \in {"secret_error", "fixable_error", "unknown_error"}
        /\ is_empty(classifier.log_content) => classifier.error_type = "unknown_error"
        /\ (/\ Matches(SECRET_ERROR_PATTERNS, classifier.log_content)
            /\ Matches(FIXABLE_ERROR_PATTERNS, classifier.log_content))
           => (classifier.error_type = "secret_error" /\ classifier.branch # "fix")

====
